---- MODULE Spec2Model ----
(***************************************************************************)
(* Model of SuperNovaRemnant (PythonVersion/snr_calc.py): the evolution    *)
(* engine update_output, the merger-time solver merger_time, the phase     *)
(* selector get_phases and the plot sampling time_array / get_plot_data.   *)
(*                                                                         *)
(* Times are integers counted in half years ("ticks"), so that the         *)
(* difference between a time and its round() is visible.  The numeric      *)
(* results of the closed forms and of the root finders (newton, brentq)    *)
(* are inputs of the model: every evaluation draws them from small sets.   *)
(***************************************************************************)
EXTENDS Integers, Sequences, FiniteSets, TLC

VARIABLES
    data,       \* self.data: the input values read from the main window
    calc,       \* self.calc: the values calculated from the inputs
    stamp,      \* for every calc field, the evaluation that wrote it (0: never)
    cnst,       \* self.cnst: the n whose ValueSet is loaded (NA: None)
    widgets,    \* the input widgets update_output and get_phases write
    registry,   \* radius_functions / velocity_functions / time_functions keys
    phases,     \* the phase sequence of the last get_phases call
    out,        \* what the last evaluation handed to the output window
    err,        \* how the last evaluation ended
    log,        \* the get_phases calls of the last evaluation, in order
    evals,      \* number of top-level evaluations so far
    plot,       \* forward-shock sample intervals of get_plot_data
    request,    \* what the last evaluation was asked for
    pc,         \* position of the pure phase-selection specification
    sol,        \* the last evaluation of a registered solution function
    emis,       \* the emissivity windows: snapshots, caches, last call
    entered     \* the variant each update_output call of the last evaluation ran with

vars == <<data, calc, stamp, cnst, widgets, registry, phases, out, err, log,
          evals, plot, request, pc, sol, emis, entered>>

----------------------------------------------------------------------------
(* Bounds of the model. *)

\* largest time drawn as an input of get_phases / time_array, in ticks
\* (half years)
MaxT == 4

\* largest time drawn as an input of update_output, in ticks
MaxET == 3

\* number of top-level evaluations of one run
MaxEvals == 2

----------------------------------------------------------------------------
(* Values. *)

\* a dictionary key that is absent, a widget value that is unset, "N/A"
NA == 0 - 1

\* one year in ticks: np.linspace(1, ...) starts the ED samples at 1 year
Year == 2

\* float("inf") / np.inf: later than every time and every rounded time
Inf == 2 * MaxT + 4

\* times the closed forms and root finders can return
Times == Year .. MaxT

Min(S) == CHOOSE x \in S : \A y \in S : x <= y

\* Python 3 round() of a time given in ticks: to the nearest year, ties to
\* the even year; the result is again in ticks
Round(h) ==
    IF h % 2 = 0 THEN h
    ELSE IF (h \div 2) % 2 = 0 THEN 2 * (h \div 2) ELSE 2 * ((h \div 2) + 1)

Models == {"cf", "wl", "lk", "tw"}

Last(seq) == seq[Len(seq)]

Contains(seq, x) == \E i \in 1 .. Len(seq) : seq[i] = x

IndexOf(seq, x) == CHOOSE i \in 1 .. Len(seq) : seq[i] = x

----------------------------------------------------------------------------
(* get_phases: the phase sequence for the current data and calc. *)

GetPhasesLK(d, c) ==
    IF d.t_lk = Round(c.t_st) THEN <<"ED", "LK">>
    ELSE IF d.t_lk <= Min({c.t_pds, c.t_mrg.ST}) THEN <<"ED", "ST", "LK">>
    ELSE IF d.t_lk < Min({c.t_mcs, c.t_mrg.PDS}) THEN <<"ED", "ST", "PDS", "LK">>
    ELSE <<"ED", "ST", "PDS", "MCS", "LK">>

\* the tw branch with the closing phase of the lk branch
GetPhasesTWAsLK(d, c) ==
    IF c.t_c01 < c.t_st THEN <<"ED", "TW">> ELSE <<"ED", "ST", "LK">>

GetPhasesTW(d, c) ==
    IF c.t_c01 < c.t_st THEN <<"ED", "TW">> ELSE <<"ED", "ST", "TW">>

GetPhasesWL(d, c) ==
    IF c.t_mcs < c.t_mrg.WL THEN <<"ED", "WL", "MCS">> ELSE <<"ED", "WL">>

\* the standard sequence with strict comparisons turned into non-strict ones
StandardBaseEarly(d, c) ==
    IF c.t_pds >= c.t_mrg.ST THEN <<"ED", "ST">>
    ELSE IF c.t_mcs >= c.t_mrg.PDS THEN <<"ED", "ST", "PDS">>
    ELSE <<"ED", "ST", "PDS", "MCS">>

\* the standard sequence before the ST entry is looked at
StandardBase(d, c) ==
    IF c.t_pds > c.t_mrg.ST THEN <<"ED", "ST">>
    ELSE IF c.t_mcs > c.t_mrg.PDS THEN <<"ED", "ST", "PDS">>
    ELSE <<"ED", "ST", "PDS", "MCS">>

\* the test made on the ST merger time instead of the ED merger time
DropsSTByOwnMerger(d, c) == c.t_st > c.t_mrg.ST

\* "ST" leaves the sequence when the ED merger time precedes t_st
DropsST(d, c) == c.t_st > c.t_mrg.ED

\* the standard branch answering with the cloudy-ISM sequence
GetPhasesCFAsWL(d, c) == GetPhasesWL(d, c)

GetPhasesCF(d, c) ==
    IF Contains(StandardBase(d, c), "ST") /\ DropsST(d, c)
    THEN SelectSeq(StandardBase(d, c), LAMBDA p : p # "ST")
    ELSE StandardBase(d, c)

GetPhases(d, c) ==
    IF d.s = 2 THEN <<"s2">>
    ELSE IF d.model = "lk" THEN GetPhasesLK(d, c)
    ELSE IF d.model = "tw" THEN GetPhasesTW(d, c)
    ELSE IF d.model = "wl" THEN GetPhasesWL(d, c)
    ELSE GetPhasesCF(d, c)

----------------------------------------------------------------------------
(* get_phases: the values of the plot-range dropdown.  The value selected   *)
(* in the dropdown is not part of the model.                                *)

Remove(seq, x) == SelectSeq(seq, LAMBDA v : v # x)

Replace(seq, old, new) == [i \in 1 .. Len(seq) |-> IF seq[i] = old THEN new ELSE seq[i]]

\* line 1131
AllDropdownValues ==
    <<"Current", "Reverse Shock Lifetime", "ED-ST", "PDS", "MCS", "LK", "TW">>

DropdownLK(d, c) ==
    LET v == Remove(AllDropdownValues, "TW")
    IN  IF d.t_lk = Round(c.t_st)
            THEN Replace(Remove(Remove(v, "PDS"), "MCS"), "ED-ST", "ED")
        ELSE IF d.t_lk <= Min({c.t_pds, c.t_mrg.ST})
            THEN Remove(Remove(v, "PDS"), "MCS")
        ELSE IF d.t_lk < Min({c.t_mcs, c.t_mrg.PDS}) THEN Remove(v, "MCS")
        ELSE v

DropdownTW(d, c) ==
    LET v == Remove(Remove(Remove(AllDropdownValues, "LK"), "PDS"), "MCS")
    IN  IF c.t_c01 < c.t_st THEN Replace(v, "ED-ST", "ED") ELSE v

DropdownWL(d, c) ==
    LET v == Replace(Remove(Remove(Remove(AllDropdownValues, "LK"), "PDS"), "TW"),
                     "ED-ST", "ED-WL")
    IN  IF c.t_mcs < c.t_mrg.WL THEN v ELSE Remove(v, "MCS")

\* the standard labels that keep "ED-ST" when "ST" leaves the sequence
DropdownCFKeepsST(d, c) ==
    LET v == Remove(Remove(AllDropdownValues, "TW"), "LK")
    IN  IF c.t_pds > c.t_mrg.ST THEN Remove(Remove(v, "PDS"), "MCS")
        ELSE IF c.t_mcs > c.t_mrg.PDS THEN Remove(v, "MCS")
        ELSE v

DropdownCF(d, c) ==
    LET v == Remove(Remove(AllDropdownValues, "TW"), "LK")
        w == IF c.t_pds > c.t_mrg.ST THEN Remove(Remove(v, "PDS"), "MCS")
             ELSE IF c.t_mcs > c.t_mrg.PDS THEN Remove(v, "MCS")
             ELSE v
    IN  IF Contains(StandardBase(d, c), "ST") /\ DropsST(d, c)
        THEN Replace(w, "ED-ST", "ED") ELSE w

DropdownValues(d, c) ==
    IF d.s = 2 THEN <<"Current">>
    ELSE IF d.model = "lk" THEN DropdownLK(d, c)
    ELSE IF d.model = "tw" THEN DropdownTW(d, c)
    ELSE IF d.model = "wl" THEN DropdownWL(d, c)
    ELSE DropdownCF(d, c)

----------------------------------------------------------------------------
(* time_array: first and last sample of np.linspace for a forward phase. *)

\* upper end forced by the start of the LK or TW phase
AltUpper(d, c) ==
    IF d.model = "lk" THEN d.t_lk
    ELSE IF d.model = "tw" THEN c.t_c01
    ELSE Inf

TimeArray(phase, d, c) ==
    CASE phase = "s2"  -> [lo |-> Year, hi |-> c.t_ch]
      [] phase = "ED"  -> [lo |-> Year,
                           hi |-> Min({c.t_st, AltUpper(d, c), c.t_pds, c.t_mrg.ED})]
      [] phase = "ST"  -> [lo |-> c.t_st,
                           hi |-> Min({c.t_pds, c.t_mrg.ST, AltUpper(d, c)})]
      [] phase = "PDS" -> [lo |-> c.t_pds,
                           hi |-> Min({c.t_mcs, c.t_mrg.PDS, AltUpper(d, c)})]
      [] phase = "MCS" -> [lo |-> c.t_mcs, hi |-> c.t_mrg.MCS]
      [] phase = "LK"  -> [lo |-> d.t_lk, hi |-> c.t_mrg.LK]
      [] phase = "TW"  -> [lo |-> c.t_c01, hi |-> c.t_mrg.TW]
      [] phase = "WL"  -> [lo |-> c.t_st, hi |-> Min({c.t_mrg.WL, c.t_mcs})]

\* get_plot_data, forward direction: one sample interval per phase, in the
\* order of the sequence (the arrays are concatenated in this order)
GetPlotData(seq, d, c) == [i \in 1 .. Len(seq) |-> TimeArray(seq[i], d, c)]

----------------------------------------------------------------------------
(* Shapes of the state. *)

\* a t_mrg dictionary without any key
NoMrg == [ED |-> NA, ST |-> NA, PDS |-> NA, MCS |-> NA, LK |-> NA, TW |-> NA,
          WL |-> NA, s2 |-> NA]

\* self.calc = {}
EmptyCalc == [t_st |-> NA, t_pds |-> NA, t_mcs |-> NA, t_c01 |-> NA,
              t_rev |-> NA, t_ch |-> NA, gamma_1 |-> NA, t_mrg |-> NoMrg,
              t_mrg_final |-> NA]

CalcFields == {"t_st", "t_pds", "t_mcs", "t_c01", "t_rev", "t_ch", "gamma_1",
               "t_mrg", "t_mrg_final"}

\* self.data = {}
EmptyData == [s |-> NA, n |-> NA, model |-> "cf", t_lk |-> NA, t_tw |-> NA,
              t |-> NA]

\* the widgets as the window creates them
InitWidgets == [model |-> "cf", t_lk |-> NA, tw |-> "normal", wl |-> "normal",
                values |-> <<>>]

\* the output window before the first gui.OutputValue.update
NoOutput == [eval |-> 0, model |-> "cf", phases |-> <<>>, t_mrg_final |-> NA,
             mrg_lk |-> NA]

\* no solution function was evaluated yet
NoSolution == [op |-> "none"]

\* no emissivity window was opened yet
NoEmissivity == [op |-> "none"]

\* no evaluation was asked for yet
NoRequest == [s |-> NA, n |-> NA, model |-> "cf", t_lk |-> NA, t_tw |-> NA,
              t |-> NA, fail |-> "none"]

----------------------------------------------------------------------------
(* SpecPhases: get_phases and get_plot_data as pure functions of the state  *)
(* in which update_output makes its final get_phases call.                  *)

\* merger times with the entries the variant's code path reads
MrgOf(ed, st, pds, mcs, lk, tw, wl) ==
    [ED |-> ed, ST |-> st, PDS |-> pds, MCS |-> mcs, LK |-> lk, TW |-> tw,
     WL |-> wl, s2 |-> NA]

\* MCS merger times: 0 is the value stored when the root finder gives up
McsTimes == {0} \cup Times

\* ED merger times; the infinite one (brentq finds no root for n in (2, 4))
\* compares with every t_st, t_pds and t_lk as MaxT does
EdTimes == Times

PhaseData(model, t_lk, t_tw) ==
    [s |-> 0, n |-> 2, model |-> model, t_lk |-> t_lk, t_tw |-> t_tw, t |-> Year]

PhaseCalc(t_st, t_pds, t_mcs, t_c01, mrg) ==
    [EmptyCalc EXCEPT !.t_st = t_st, !.t_pds = t_pds, !.t_mcs = t_mcs,
                      !.t_c01 = t_c01, !.t_mrg = mrg]

\* standard variant: every ordering of the values get_phases and time_array read
PhaseInputsCF(d, c) ==
    \E t_st \in Times, t_pds \in Times, t_mcs \in Times, ed \in EdTimes,
       st \in Times, pds \in Times, mcs \in McsTimes :
        /\ d = PhaseData("cf", Year, Year)
        /\ c = PhaseCalc(t_st, t_pds, t_mcs, Year,
                         MrgOf(ed, st, pds, mcs, NA, Year, NA))

\* lk variant: update_output keeps t_lk only if it is not later than
\* t_mrg_final = round(t_mrg["LK"]); otherwise t_lk is reset to round(t_st)
PhaseInputsLK(d, c) ==
    \E t_st \in Times, t_pds \in Times, t_mcs \in Times, t_lk \in Times,
       ed \in EdTimes, st \in Times, pds \in Times, mcs \in McsTimes,
       lk \in Times :
        /\ t_lk <= Round(lk) \/ t_lk = Round(t_st)
        /\ d = PhaseData("lk", t_lk, Year)
        /\ c = PhaseCalc(t_st, t_pds, t_mcs, Year,
                         MrgOf(ed, st, pds, mcs, lk, Year, NA))

\* tw variant: update_output keeps it only while 0.1 * t_c <= t_pds
PhaseInputsTW(d, c) ==
    \E t_st \in Times, t_pds \in Times, t_c01 \in Times, ed \in EdTimes,
       st \in Times, tw \in Times :
        /\ t_c01 <= t_pds
        /\ d = PhaseData("tw", Year, tw)
        /\ c = PhaseCalc(t_st, t_pds, MaxT, t_c01,
                         MrgOf(ed, st, MaxT, MaxT, NA, tw, NA))

\* wl variant: update_output keeps it only if t_mrg["ED"] >= t_st
PhaseInputsWL(d, c) ==
    \E t_st \in Times, t_pds \in Times, t_mcs \in Times, ed \in EdTimes,
       mcs \in McsTimes, wl \in Times :
        /\ ed >= t_st
        /\ d = PhaseData("wl", Year, Year)
        /\ c = PhaseCalc(t_st, t_pds, t_mcs, Year,
                         MrgOf(ed, MaxT, MaxT, mcs, NA, Year, wl))

\* wind environment: only t_ch is calculated
PhaseInputsS2(d, c) ==
    \E m \in Models, t_ch \in Times :
        /\ d = [PhaseData(m, Year, Year) EXCEPT !.s = 2]
        /\ c = [EmptyCalc EXCEPT !.t_ch = t_ch, !.t_mrg = [NoMrg EXCEPT !.s2 = t_ch]]

InitPhases ==
    /\ \/ PhaseInputsCF(data, calc)
       \/ PhaseInputsLK(data, calc)
       \/ PhaseInputsTW(data, calc)
       \/ PhaseInputsWL(data, calc)
       \/ PhaseInputsS2(data, calc)
    /\ stamp = [f \in CalcFields |-> 0]
    /\ cnst = NA
    /\ widgets = InitWidgets
    /\ registry = {}
    /\ phases = <<>>
    /\ out = NoOutput
    /\ err = "none"
    /\ log = <<>>
    /\ evals = 0
    /\ plot = <<>>
    /\ request = NoRequest
    /\ pc = "input"
    /\ sol = NoSolution
    /\ emis = NoEmissivity
    /\ entered = <<>>

\* phases = self.get_phases()
SelectPhases ==
    /\ pc = "input"
    /\ phases' = GetPhases(data, calc)
    /\ widgets' = [widgets EXCEPT !.values = DropdownValues(data, calc)]
    /\ pc' = "selected"
    /\ UNCHANGED <<data, calc, stamp, cnst, registry, out, err, log, evals,
                   plot, request, sol, emis, entered>>

\* self.update_plot(phases) -> self.get_plot_data(phases)
SamplePlot ==
    /\ pc = "selected"
    /\ plot' = GetPlotData(phases, data, calc)
    /\ pc' = "sampled"
    /\ UNCHANGED <<data, calc, stamp, cnst, widgets, registry, phases, out,
                   err, log, evals, request, sol, emis,
                   entered>>

NextPhases == SelectPhases \/ SamplePlot

SpecPhases == InitPhases /\ [][NextPhases]_vars

----------------------------------------------------------------------------
(* Claims about the phase sequence and its sample intervals (SpecPhases). *)

NoDuplicates(seq) ==
    \A i, j \in 1 .. Len(seq) : seq[i] = seq[j] => i = j

\* ED, ST, PDS, MCS in age order
CoreRank(p) ==
    CASE p = "ED" -> 1 [] p = "ST" -> 2 [] p = "PDS" -> 3 [] p = "MCS" -> 4
      [] OTHER -> 0

CorePhases == {"ED", "ST", "PDS", "MCS"}

IsPhasePath(seq, d) ==
    /\ Len(seq) >= 1
    /\ NoDuplicates(seq)
    /\ d.s = 2 => seq = <<"s2">>
    /\ d.s = 0 =>
        /\ seq[1] = "ED"
        /\ \A i \in 1 .. Len(seq) :
              seq[i] \in CorePhases \cup {"WL", "LK", "TW"}
        /\ \A i, j \in 1 .. Len(seq) :
              (i < j /\ seq[i] \in CorePhases /\ seq[j] \in CorePhases)
                  => CoreRank(seq[i]) < CoreRank(seq[j])
        /\ Contains(seq, "WL") => (d.model = "wl" /\ seq[2] = "WL")
        /\ Contains(seq, "LK") => (d.model = "lk" /\ Last(seq) = "LK")
        /\ Contains(seq, "TW") => (d.model = "tw" /\ Last(seq) = "TW")

\* C3: the sequence get_phases returns is a duplicate-free path of the phase
\* graph: (s2) for s=2; for s=0 it starts with ED, keeps ED, ST, PDS, MCS in
\* that order, has WL only in the wl variant directly after ED, and LK (TW)
\* only in the lk (tw) variant as the last element.
C3_PhasePath == pc # "input" => IsPhasePath(phases, data)

\* C3 witness: the standard sequence that lost its ST entry
C3_Witness == pc = "selected" /\ phases = <<"ED", "PDS", "MCS">>

\* C4: every forward sample interval has start <= end, no phase starts
\* before the phase in front of it, and the concatenated samples never go
\* back in time.
C4_TimeOrdered ==
    pc = "sampled" =>
        /\ \A i \in 1 .. Len(plot) : plot[i].lo <= plot[i].hi
        /\ \A i \in 1 .. Len(plot) - 1 :
              /\ plot[i].lo <= plot[i + 1].lo
              /\ plot[i].hi <= plot[i + 1].lo

\* C5 as stated: in every s=0 variant a sequence whose ST merger time
\* precedes t_st contains no ST.
C5_Original ==
    (pc # "input" /\ data.s = 0 /\ calc.t_mrg.ST < calc.t_st)
        => ~Contains(phases, "ST")

\* C5 amended: in the standard variant (s=0) a sequence whose ED merger time
\* precedes t_st contains no ST.
C5_StandardDropsST ==
    (pc # "input" /\ data.s = 0 /\ data.model = "cf"
        /\ calc.t_mrg.ED < calc.t_st)
        => ~Contains(phases, "ST")

\* C5 witness: a standard evaluation that dropped ST while the ST merger
\* time itself is not before t_st
C5_Witness ==
    /\ pc = "selected" /\ data.s = 0 /\ data.model = "cf"
    /\ calc.t_mrg.ED < calc.t_st /\ calc.t_mrg.ST >= calc.t_st
    /\ phases = <<"ED", "PDS">>

----------------------------------------------------------------------------
(* Constant tables and the solution registry. *)

\* keys of VALUE_DICT: the density indices with an s=0 ValueSet
ValueKeys == {0, 2, 4, 6, 7, 8, 9, 10, 12, 14}

\* density indices with an s=2 solution
S2Keys == {0, 1, 2, 7}

\* the ValueSet fields that are not None for density index n
CnstFields(n) ==
    IF n = 0 THEN {"t_st", "t_rchg"}
    ELSE IF n \in {2, 4}
        THEN {"l_ed", "phi_ed", "t_st", "r_st", "t_rchg", "r_rchg", "v_rchg",
              "a_rchg", "phi_eff", "f_n", "alpha"}
    ELSE {"l_ed", "phi_ed", "t_st", "r_st", "t_rchg", "r_rchg", "v_rchg",
          "a_rchg"}

S0Phases == {"PDS", "MCS", "LK", "TW", "WL", "ST", "late", "ED", "early"}

\* the dictionaries without the s=2 solutions of n = 7
InitFunctionsLessN7 ==
    [radius   |-> {<<n, p>> : n \in ValueKeys, p \in S0Phases}
                    \cup {<<n, p>> : n \in S2Keys \ {7}, p \in {"s2", "s2r"}},
     velocity |-> {<<n, p>> : n \in ValueKeys, p \in S0Phases}
                    \cup {<<n, p>> : n \in S2Keys \ {7}, p \in {"s2", "s2r"}},
     time     |-> {<<n, p>> : n \in {2, 4}, p \in {"ED", "early"}}
                    \cup {<<n, p>> : n \in S2Keys \ {7}, p \in {"s2", "s2r"}}]

\* _init_functions: the keys of the three function dictionaries
InitFunctions ==
    [radius   |-> {<<n, p>> : n \in ValueKeys, p \in S0Phases}
                    \cup {<<n, p>> : n \in S2Keys, p \in {"s2", "s2r"}},
     velocity |-> {<<n, p>> : n \in ValueKeys, p \in S0Phases}
                    \cup {<<n, p>> : n \in S2Keys, p \in {"s2", "s2r"}},
     time     |-> {<<n, p>> : n \in {2, 4}, p \in {"ED", "early"}}
                    \cup {<<n, p>> : n \in S2Keys \ {7}, p \in {"s2", "s2r"}}]

----------------------------------------------------------------------------
(* get_phase: the phase the model is in at a given age. *)

\* get_phase with the LK and TW phases entered at their start time itself
GetPhaseFromStart(time, d, c) ==
    IF d.s = 2 THEN "s2"
    ELSE IF d.model = "lk" /\ time >= d.t_lk THEN "LK"
    ELSE IF d.model = "tw" /\ time >= c.t_c01 THEN "TW"
    ELSE IF d.model = "wl" /\ time > c.t_st
        THEN (IF time > c.t_mcs THEN "MCS" ELSE "WL")
    ELSE IF (time < c.t_st /\ c.t_st < c.t_pds)
              \/ (time < c.t_pds /\ c.t_pds < c.t_st) THEN "ED"
    ELSE IF time < c.t_pds THEN "ST"
    ELSE IF time < c.t_mcs THEN "PDS"
    ELSE "MCS"

GetPhase(time, d, c) ==
    IF d.s = 2 THEN "s2"
    ELSE IF d.model = "lk" /\ time > d.t_lk THEN "LK"
    ELSE IF d.model = "tw" /\ time > c.t_c01 THEN "TW"
    ELSE IF d.model = "wl" /\ time > c.t_st
        THEN (IF time > c.t_mcs THEN "MCS" ELSE "WL")
    ELSE IF (time < c.t_st /\ c.t_st < c.t_pds)
              \/ (time < c.t_pds /\ c.t_pds < c.t_st) THEN "ED"
    ELSE IF time < c.t_pds THEN "ST"
    ELSE IF time < c.t_mcs THEN "PDS"
    ELSE "MCS"

----------------------------------------------------------------------------
(* The numeric results of one set of physical inputs.  A record o holds     *)
(* what the closed forms return and how each root finder ends:              *)
(*   t_st, t_pds, t_c01, t_ch   transition times and the s=2 end time       *)
(*   t_mcs, t_mcs_wl            MCS onset by the standard / cloudy formula  *)
(*   rev                        newton for t_rev: a time, or Diverges       *)
(*   ed                         ED merger: a time, NoRoot (brentq raises    *)
(*                              ValueError) or Diverges (RuntimeError)      *)
(*   st, lk, lk_reset           closed forms                                *)
(*   pds, mcs, mcs_wl, wl       newton: a time, or Diverges                 *)

\* newton gives up after its iteration limit: RuntimeError
Diverges == 0 - 2

\* brentq finds no sign change in its bracket: ValueError
NoRoot == 0 - 3

\* the LK merger time is a function of the LK start time
LkMerger(o, t_lk, c) == IF t_lk = Round(c.t_st) THEN o.lk_reset ELSE o.lk

\* a field of self.cnst is read: AttributeError when cnst is None,
\* TypeError when the loaded ValueSet holds None for it
CnstRead(cn, fields) ==
    IF cn = NA THEN "AttributeError"
    ELSE IF fields \subseteq CnstFields(cn) THEN "none"
    ELSE "TypeError"

\* first error of a sequence of steps ("none" if all pass)
FirstError(errs) ==
    IF \A i \in 1 .. Len(errs) : errs[i] = "none" THEN "none"
    ELSE errs[CHOOSE i \in 1 .. Len(errs) :
                 errs[i] # "none" /\ \A j \in 1 .. i - 1 : errs[j] = "none"]

\* t_mrg["ED"]: newton for n = 0, newton over brentq for n in (2, 4) with
\* ValueError caught, a closed form otherwise
MergerED(n, d, c, cn, reg, o) ==
    IF n = 0 THEN
        [err |-> IF <<n, "ED">> \notin reg.velocity THEN "KeyError"
                 ELSE IF o.ed = Diverges THEN "RuntimeError" ELSE "none",
         val |-> o.ed]
    ELSE IF n \in {2, 4} THEN
        [err |-> IF CnstRead(cn, {"r_st", "alpha", "l_ed", "phi_eff", "f_n"}) # "none"
                     THEN CnstRead(cn, {"r_st", "alpha", "l_ed", "phi_eff", "f_n"})
                 ELSE IF o.ed = Diverges THEN "RuntimeError" ELSE "none",
         val |-> IF o.ed = NoRoot THEN Inf ELSE o.ed]
    ELSE
        [err |-> CnstRead(cn, {"l_ed", "phi_ed"}), val |-> o.ed]

\* t_mrg["ST"]: closed forms
MergerST(n, d, c, cn, reg, o) ==
    [err |-> IF n = 0 THEN "none" ELSE CnstRead(cn, {"r_st", "t_st"}),
     val |-> o.st]

\* t_mrg["PDS"]: newton, no handler
MergerPDS(n, d, c, cn, reg, o) ==
    [err |-> IF <<n, "PDS">> \notin reg.velocity THEN "KeyError"
             ELSE IF c.t_pds = NA THEN "KeyError"
             ELSE IF o.pds = Diverges THEN "RuntimeError" ELSE "none",
     val |-> o.pds]

\* the MCS root finder result for the variant in effect
McsResult(d, o) == IF d.model = "wl" THEN o.mcs_wl ELSE o.mcs

\* an MCS root finder without the handler: the RuntimeError leaves merger_time
McsRaises(r) ==
    [err |-> IF r = Diverges THEN "RuntimeError" ELSE "none", val |-> r]

\* what an MCS root finder that gives up is replaced by: a merger time of 0
\* in place of the RuntimeError
McsFallback(r) ==
    [err |-> "none", val |-> IF r = Diverges THEN 0 ELSE r]

\* t_mrg["MCS"]: newton, RuntimeError caught
MergerMCS(n, d, c, cn, reg, o) ==
    IF <<n, "MCS">> \notin reg.velocity \/ c.t_mcs = NA
    THEN [err |-> "KeyError", val |-> NA]
    ELSE McsFallback(McsResult(d, o))

\* t_mrg["LK"]: closed form anchored at get_phase(t_lk), "N/A" outside lk
MergerLK(n, d, c, cn, reg, o) ==
    IF d.model # "lk" THEN [err |-> "none", val |-> NA]
    ELSE [err |-> IF <<n, GetPhase(d.t_lk, d, c)>> \notin reg.radius
                      THEN "KeyError"
                  ELSE IF c.gamma_1 = NA THEN "KeyError" ELSE "none",
          val |-> LkMerger(o, d.t_lk, c)]

\* t_mrg["WL"]: closed form, newton when it is below 1.1 * t_st; "N/A"
\* outside wl
MergerWL(n, d, c, cn, reg, o) ==
    IF d.model # "wl" THEN [err |-> "none", val |-> NA]
    ELSE [err |-> IF o.wl = Diverges THEN "RuntimeError" ELSE "none",
          val |-> o.wl]

\* merger_time(n): the dictionary of merger times, or the first exception
MergerTime(n, d, c, cn, reg, o) ==
    LET ed  == MergerED(n, d, c, cn, reg, o)
        st  == MergerST(n, d, c, cn, reg, o)
        pds == MergerPDS(n, d, c, cn, reg, o)
        mcs == MergerMCS(n, d, c, cn, reg, o)
        lk  == MergerLK(n, d, c, cn, reg, o)
        wl  == MergerWL(n, d, c, cn, reg, o)
    IN  [err   |-> FirstError(<<ed.err, st.err, pds.err, mcs.err, lk.err, wl.err>>),
         t_mrg |-> [ED |-> ed.val, ST |-> st.val, PDS |-> pds.val,
                    MCS |-> mcs.val, LK |-> lk.val, TW |-> d.t_tw,
                    WL |-> wl.val, s2 |-> NA]]

----------------------------------------------------------------------------
(* update_output.  An evaluation is a record e of the object's fields      *)
(* (data, calc, stamp, cnst, widgets, registry), the local phases, the      *)
(* published output out, the exception err that ended it ("none" if it     *)
(* returned) and the log of its get_phases calls; k numbers the top-level  *)
(* evaluation, u are the values the user entered, o the numeric results.   *)

Raise(e, kind) == [e EXCEPT !.err = kind]

\* gui.InputParam.get_values: the values held by the input widgets
GetValues(w, u) == [u EXCEPT !.model = w.model, !.t_lk = w.t_lk]

\* the calc fields a get_phases call reads
PhaseReads(d, w) ==
    IF d.s = 2 THEN {}
    ELSE (CASE d.model = "lk" -> {"t_st", "t_pds", "t_mcs", "t_mrg"}
            [] d.model = "tw" -> {"t_c01", "t_st"}
            [] d.model = "wl" -> {"t_mcs", "t_mrg"}
            [] OTHER -> {"t_pds", "t_mcs", "t_mrg", "t_st"})
         \cup (IF w.wl = "disabled" THEN {"t_st", "t_mrg"} ELSE {})

\* the state of the wl radio button after get_phases
WlStateAfter(d, c, w) ==
    LET dropped == IF d.s # 2 /\ d.model \notin {"lk", "tw", "wl"}
                      /\ Contains(StandardBase(d, c), "ST") /\ DropsST(d, c)
                   THEN "disabled" ELSE w.wl
    IN  IF d.s # 2 /\ dropped = "disabled" /\ c.t_st < c.t_mrg.ED
        THEN "normal" ELSE dropped

\* phases = self.get_phases(), with its effect on the widgets
CallGetPhases(e, k) ==
    [e EXCEPT !.phases = GetPhases(e.data, e.calc),
              !.widgets.wl = WlStateAfter(e.data, e.calc, e.widgets),
              !.widgets.values = DropdownValues(e.data, e.calc),
              !.log = Append(@, [seq   |-> GetPhases(e.data, e.calc),
                                 stale |-> {f \in PhaseReads(e.data, e.widgets) :
                                               e.stamp[f] # k}])]

\* lines 130-160: the ValueSet lookup, the scales and the transition times
S0Scales(e, o, k) ==
    IF e.data.n \notin ValueKeys THEN Raise(e, "KeyError")
    ELSE
        LET e1 == [e EXCEPT
                     !.cnst = e.data.n,
                     !.calc.t_ch = o.t_ch,
                     !.calc.t_st = o.t_st,
                     !.calc.t_pds = o.t_pds,
                     !.calc.t_mcs = IF e.data.model = "wl" THEN o.t_mcs_wl
                                    ELSE o.t_mcs,
                     !.stamp.t_ch = k, !.stamp.t_st = k, !.stamp.t_pds = k,
                     !.stamp.t_mcs = k]
        IN  IF <<e.data.n, "late">> \notin e.registry.radius
                THEN Raise(e1, "KeyError")
            ELSE IF o.rev = Diverges THEN Raise(e1, "RuntimeError")
            ELSE [e1 EXCEPT
                    !.calc.t_rev = o.rev,
                    !.calc.t_c01 = o.t_c01,
                    !.calc.gamma_1 = IF e.data.model = "lk" THEN 1 ELSE @,
                    !.stamp.t_rev = k, !.stamp.t_c01 = k,
                    !.stamp.gamma_1 = IF e.data.model = "lk" THEN k ELSE @]

\* pds_old: round of the previous t_pds, -1 (year) when there is none
PdsOld(c) == IF c.t_pds # NA THEN Round(c.t_pds) ELSE 0 - Year

\* the LK start time kept whatever the old t_pds was
LkKeepsStart(e, pds_old) == e

\* lines 167-170: the LK start time follows t_pds if it was the old t_pds
LkFollowsPds(e, pds_old) ==
    IF e.data.t_lk = Round(pds_old)
    THEN [e EXCEPT !.widgets.t_lk = Round(e.calc.t_pds),
                   !.data.t_lk = e.calc.t_pds]
    ELSE e

\* merger_time is called but its dictionary is not stored
StoreMergerDropped(e, o, k) ==
    LET m == MergerTime(e.data.n, e.data, e.calc, e.cnst, e.registry, o)
    IN  IF m.err # "none" THEN Raise(e, m.err) ELSE e

\* line 171: self.calc["t_mrg"] = self.merger_time(n)
StoreMerger(e, o, k) ==
    LET m == MergerTime(e.data.n, e.data, e.calc, e.cnst, e.registry, o)
    IN  IF m.err # "none" THEN Raise(e, m.err)
        ELSE [e EXCEPT !.calc.t_mrg = m.t_mrg, !.stamp.t_mrg = k]

\* lines 124-171: everything get_phases reads is calculated
ResolveTimes(e, o, k) ==
    LET e1 == S0Scales(e, o, k)
    IN  IF e1.err # "none" THEN e1
        ELSE StoreMerger(LkFollowsPds(e1, PdsOld(e.calc)), o, k)

\* the test of line 172 with the two times exchanged
WlFallsBackReversed(e) ==
    e.calc.t_st < e.calc.t_mrg.ED /\ e.data.model = "wl"

\* line 172: the wl variant is given up when the ED phase merges before t_st
WlFallsBack(e) ==
    e.calc.t_mrg.ED < e.calc.t_st /\ e.data.model = "wl"

\* line 178
StoreFinal(e, k) ==
    [e EXCEPT !.calc.t_mrg_final = Round(e.calc.t_mrg[Last(e.phases)]),
              !.stamp.t_mrg_final = k]

\* lines 193-198: the state of the tw radio button
TwStateAfter(c, w) ==
    IF c.t_c01 <= c.t_pds /\ w.tw = "disabled" THEN "normal"
    ELSE IF c.t_c01 > c.t_pds /\ w.tw = "normal" THEN "disabled"
    ELSE w.tw

\* the tw variant is never given up
TwNeverFallsBack(e) == FALSE

\* lines 196-199: the tw variant is given up when the button gets disabled
TwFallsBack(e) ==
    /\ e.calc.t_c01 > e.calc.t_pds
    /\ e.widgets.tw = "normal"
    /\ e.widgets.model = "tw"

\* lines 206-217: the s=2 branch
S2Branch(e, o, k) ==
    StoreFinal(
        CallGetPhases(
            [e EXCEPT !.calc.t_ch = o.t_ch,
                      !.calc.t_mrg = [NoMrg EXCEPT !.s2 = o.t_ch],
                      !.stamp.t_ch = k, !.stamp.t_mrg = k], k), k)

\* lines 219-225: an LK start time after the end of the model is reset to
\* round(t_st), the LK merger time is calculated again for the output and
\* the phases are selected again
ResetLk(e, o, k) ==
    IF ~(e.data.model = "lk" /\ e.data.t_lk > e.calc.t_mrg_final) THEN e
    ELSE IF e.calc.t_st = NA THEN Raise(e, "KeyError")
    ELSE
        LET e1 == [e EXCEPT !.widgets.t_lk = Round(e.calc.t_st),
                            !.data.t_lk = Round(e.calc.t_st)]
            m  == MergerTime(e1.data.n, e1.data, e1.calc, e1.cnst, e1.registry, o)
        IN  IF m.err # "none" THEN Raise(e1, m.err)
            ELSE CallGetPhases([e1 EXCEPT !.mrg_lk = m.t_mrg.LK], k)

\* lines 226-228: the age is not later than the end of the model
ClampAge(e) ==
    IF e.data.t >= e.calc.t_mrg_final
    THEN [e EXCEPT !.data.t = e.calc.t_mrg_final]
    ELSE e

\* line 229 and line 234: get_specific_data and get_plot_data look the
\* forward and reverse solutions up in the function dictionaries
ForwardLookups(e) ==
    {<<e.data.n, GetPhase(e.data.t, e.data, e.calc)>>}
        \cup {<<e.data.n, e.phases[i]>> : i \in 1 .. Len(e.phases)}

\* emissivity_model_exists: the exception it raises ("none" if it returns)
EmissivityCheck(e) ==
    IF e.data.s = 2 /\ e.data.n = 7 THEN "none"
    ELSE IF e.data.model \notin {"cf", "wl"} THEN "none"
    ELSE IF e.cnst = NA THEN "AttributeError"
    ELSE IF e.data.n \in {7, 12}
              /\ e.data.t < e.calc.t_ch THEN "none"
    ELSE IF e.calc.t_rev = NA THEN "KeyError"
    ELSE "none"

\* lines 229-245: the outputs at the current age, the plot, the output
\* window and the emissivity button
Publish(e, k) ==
    IF ~(ForwardLookups(e) \subseteq e.registry.radius) THEN Raise(e, "KeyError")
    ELSE
        LET e1 == [e EXCEPT !.out = [eval |-> k, model |-> e.data.model,
                                     phases |-> e.phases,
                                     t_mrg_final |-> e.calc.t_mrg_final,
                                     mrg_lk |-> e.mrg_lk]]
        IN  Raise(e1, EmissivityCheck(e1))

\* lines 218-245
Finish(e, o, k) ==
    LET e1 == ResetLk(e, o, k)
    IN  IF e1.err # "none" THEN e1 ELSE Publish(ClampAge(e1), k)

\* the cloudy variant given up for the variant it does not fall back to
FallBackWLToTW(e) == [e EXCEPT !.widgets.model = "tw"]

\* line 174: the radio button is set back to the standard variant
FallBackWL(e) == [e EXCEPT !.widgets.model = "cf"]

\* lines 200-201: the radio button and data["model"] are set to the
\* standard variant
FallBackTW(e) == [e EXCEPT !.widgets.model = "cf", !.data.model = "cf"]

RECURSIVE UpdateOutputBody(_, _, _, _)

\* update_output: u are the values entered in the widgets
UpdateOutputBody(e, u, o, k) ==
    LET e0 == [e EXCEPT !.data = GetValues(e.widgets, u),
                        !.calls = Append(@, e.widgets.model)]
    IN  IF e0.data.s = 0 THEN
            LET e1 == ResolveTimes(e0, o, k)
            IN  IF e1.err # "none" THEN e1
                ELSE IF WlFallsBack(e1)
                    THEN UpdateOutputBody(FallBackWL(e1), u, o, k)
                ELSE
                    LET e2 == StoreFinal(CallGetPhases(e1, k), k)
                        e3 == [e2 EXCEPT !.widgets.tw = TwStateAfter(e2.calc, e2.widgets)]
                    IN  IF TwFallsBack(e2)
                        THEN UpdateOutputBody(FallBackTW(e3), u, o, k)
                        ELSE Finish(e3, o, k)
        ELSE Finish(S2Branch(e0, o, k), o, k)

----------------------------------------------------------------------------
(* Spec: the object after construction and its evaluations.  Every          *)
(* evaluation draws what the user entered and the numeric results of these  *)
(* inputs; at most one root finder gives up per evaluation.                 *)

\* times an evaluation can produce
ETimes == Year .. MaxET

\* density indices entered: 0 (newton for the ED merger), 2 (brentq under
\* newton), 6 (closed form; no s=2 solution), 1 (s=2 only; no ValueSet)
NVals == {0, 1, 2, 6}

\* the root finder that gives up, if any
FailKinds == {"none", "rev", "ed", "ed_noroot", "pds", "mcs", "wl"}

\* the root finders that run for the entered values
Fails(u) ==
    IF u.s = 2 THEN (IF u.model = "lk" THEN {"none", "pds"} ELSE {"none"})
    ELSE {"none", "rev", "pds", "mcs"}
            \cup (IF u.n \in {0, 2, 4} THEN {"ed"} ELSE {})
            \cup (IF u.n \in {2, 4} THEN {"ed_noroot"} ELSE {})
            \cup (IF u.model = "wl" THEN {"wl"} ELSE {})

\* the numeric results: a is t_st (and t_ch), b the ED merger time, x is
\* 0.1 * t_c and the LK merger time of the entered t_lk; the other times
\* are fixed
Oracle(a, b, x, fail) ==
    [t_ch     |-> a,
     t_st     |-> a,
     t_pds    |-> Year,
     t_c01    |-> x,
     t_mcs    |-> MaxET,
     t_mcs_wl |-> MaxET,
     rev      |-> IF fail = "rev" THEN Diverges ELSE Year,
     ed       |-> IF fail = "ed" THEN Diverges
                  ELSE IF fail = "ed_noroot" THEN NoRoot ELSE b,
     st       |-> MaxET,
     pds      |-> IF fail = "pds" THEN Diverges ELSE MaxET,
     mcs      |-> IF fail = "mcs" THEN Diverges ELSE MaxET,
     mcs_wl   |-> IF fail = "mcs" THEN Diverges ELSE MaxET,
     wl       |-> IF fail = "wl" THEN Diverges ELSE MaxET,
     lk       |-> x,
     lk_reset |-> MaxET]

\* a radio button can be chosen while it is enabled
Selectable(w, model) ==
    /\ model = "tw" => (w.tw = "normal" \/ w.model = "tw")
    /\ model = "wl" => (w.wl = "normal" \/ w.model = "wl")

\* the evaluation record at the entry of update_output
Entry(u) ==
    [data |-> data, calc |-> calc, stamp |-> stamp, cnst |-> cnst,
     widgets |-> [widgets EXCEPT !.model = u.model, !.t_lk = u.t_lk],
     registry |-> registry, phases |-> <<>>, out |-> out, err |-> "none",
     log |-> <<>>, mrg_lk |-> NA, calls |-> <<>>]

\* __init__: empty data and calc, no ValueSet, the function dictionaries
\* filled by _init_functions
Init ==
    /\ data = EmptyData
    /\ calc = EmptyCalc
    /\ stamp = [f \in CalcFields |-> 0]
    /\ cnst = NA
    /\ widgets = InitWidgets
    /\ registry = InitFunctions
    /\ phases = <<>>
    /\ out = NoOutput
    /\ err = "none"
    /\ log = <<>>
    /\ evals = 0
    /\ plot = <<>>
    /\ request = NoRequest
    /\ pc = "engine"
    /\ sol = NoSolution
    /\ emis = NoEmissivity
    /\ entered = <<>>

\* one call of update_output from the window, with its re-entries
UpdateOutput ==
    /\ pc = "engine"
    /\ evals < MaxEvals
    /\ \E s \in {0, 2}, n \in NVals, model \in Models, t_lk \in ETimes,
          a \in ETimes, b \in ETimes, x \in ETimes, fail \in FailKinds :
        LET u == [s |-> s, n |-> n, model |-> model, t_lk |-> t_lk,
                  t_tw |-> MaxET, t |-> MaxET]
        IN  /\ Selectable(widgets, model)
            /\ fail \in Fails(u)
            /\ model # "lk" => t_lk = Year
            /\ s = 2 => (b = Year /\ x = Year)
            /\ \E e \in {UpdateOutputBody(Entry(u), u, Oracle(a, b, x, fail),
                                          evals + 1)} :
                /\ data' = e.data
                /\ calc' = e.calc
                /\ stamp' = e.stamp
                /\ cnst' = e.cnst
                /\ widgets' = e.widgets
                /\ phases' = e.phases
                /\ out' = e.out
                /\ err' = e.err
                /\ log' = e.log
                /\ plot' = IF e.out.eval = evals + 1
                       THEN GetPlotData(e.phases, e.data, e.calc) ELSE plot
                /\ request' = [s |-> s, n |-> n, model |-> model, t_lk |-> t_lk,
                           t_tw |-> MaxET, t |-> MaxET, fail |-> fail]
                /\ evals' = evals + 1
                /\ entered' = e.calls
                /\ UNCHANGED <<registry, pc, sol, emis>>

Next == UpdateOutput

Spec == Init /\ [][Next]_vars

RangeLabels == {"PDS", "MCS", "LK", "TW"}

EarlyLabels == {"ED", "ED-ST", "ED-WL"}

\* the early-phase label that belongs to a sequence
EarlyLabel(seq) ==
    IF Contains(seq, "ST") THEN "ED-ST"
    ELSE IF Contains(seq, "WL") THEN "ED-WL"
    ELSE "ED"

\* C12: after get_phases the dropdown offers the label PDS, MCS, LK or TW
\* exactly when that phase is in the returned sequence; of the early-phase
\* labels it offers exactly one: ED-ST if ST is in the sequence, ED-WL if WL
\* is, ED otherwise; for s = 2 it offers only Current.
C12_LabelsAgree ==
    pc = "selected" =>
        /\ \A l \in RangeLabels :
              Contains(widgets.values, l) <=> Contains(phases, l)
        /\ data.s # 2 =>
              \A l \in EarlyLabels :
                  Contains(widgets.values, l) <=> l = EarlyLabel(phases)
        /\ data.s = 2 => widgets.values = <<"Current">>

\* the standard variant lost ST and offers ED together with PDS and MCS
C12_Witness ==
    /\ pc = "selected" /\ data.model = "cf"
    /\ phases = <<"ED", "PDS", "MCS">>
    /\ widgets.values = <<"Current", "Reverse Shock Lifetime", "ED", "PDS", "MCS">>

\* C19: in the standard variant PDS is in the sequence exactly when
\* t_pds <= t_mrg[ST], MCS exactly when PDS is and t_mcs <= t_mrg[PDS], ST
\* exactly when t_st <= t_mrg[ED], and ED always; the tw variant never
\* contains PDS or MCS, the wl variant never ST or PDS.
C19_Inclusion ==
    (pc = "selected" /\ data.s = 0) =>
        /\ data.model = "cf" =>
              /\ Contains(phases, "ED")
              /\ Contains(phases, "PDS") <=> calc.t_pds <= calc.t_mrg.ST
              /\ Contains(phases, "MCS") <=>
                    (Contains(phases, "PDS") /\ calc.t_mcs <= calc.t_mrg.PDS)
              /\ Contains(phases, "ST") <=> calc.t_st <= calc.t_mrg.ED
        /\ data.model = "tw" =>
              ~Contains(phases, "PDS") /\ ~Contains(phases, "MCS")
        /\ data.model = "wl" =>
              ~Contains(phases, "ST") /\ ~Contains(phases, "PDS")

\* the boundary cases: t_pds = t_mrg[ST] keeps PDS, t_mcs = t_mrg[PDS] keeps MCS
C19_Witness ==
    /\ pc = "selected" /\ data.s = 0 /\ data.model = "cf"
    /\ calc.t_pds = calc.t_mrg.ST /\ calc.t_mcs = calc.t_mrg.PDS
    /\ calc.t_st = calc.t_mrg.ED
    /\ phases = <<"ED", "ST", "PDS", "MCS">>

----------------------------------------------------------------------------
(* Claims about update_output and merger_time (Spec). *)

\* the last evaluation asked for the cloudy-ISM variant in a uniform medium
AskedWL == evals >= 1 /\ request.s = 0 /\ request.model = "wl"

\* C1: an s=0 evaluation asked for wl falls back to cf exactly when
\* t_mrg[ED] < t_st; the fallback ends without error and its sequence has no
\* WL; with t_mrg[ED] >= t_st the variant stays wl and the sequence begins
\* ED, WL.
C1_WlFallback ==
    AskedWL =>
        /\ data.model = "cf" =>
              /\ err = "none"
              /\ calc.t_mrg.ED < calc.t_st
              /\ ~Contains(phases, "WL")
        /\ (err = "none" /\ calc.t_mrg.ED < calc.t_st) =>
              /\ data.model = "cf"
              /\ widgets.model = "cf"
        /\ (err = "none" /\ calc.t_mrg.ED >= calc.t_st) =>
              /\ data.model = "wl"
              /\ Len(phases) >= 2
              /\ phases[1] = "ED"
              /\ phases[2] = "WL"

\* C1 witness: an evaluation asked for wl that ended as a standard one
C1_Witness ==
    /\ AskedWL
    /\ data.model = "cf"
    /\ err = "none"
    /\ calc.t_mrg.ED < calc.t_st
    /\ phases[1] = "ED"

\* C2 as stated: asking for wl with t_st (the WL transition time) before
\* t_mrg[ED] falls back to cf and hands out a sequence without WL.
C2_Original ==
    (AskedWL /\ err = "none" /\ calc.t_st < calc.t_mrg.ED) =>
        /\ out.model = "cf"
        /\ ~Contains(out.phases, "WL")

\* C2 amended: asking for wl with t_mrg[ED] before t_st (the WL transition
\* time) falls back to cf and hands out a sequence without WL.
C2_FallbackWhenEDMergesFirst ==
    (AskedWL /\ err = "none" /\ calc.t_mrg.ED < calc.t_st) =>
        /\ out.eval = evals
        /\ out.model = "cf"
        /\ ~Contains(out.phases, "WL")

\* C2 witness: the output of a fallback, a standard sequence without ST
C2_Witness ==
    /\ AskedWL
    /\ calc.t_mrg.ED < calc.t_st
    /\ out.eval = evals
    /\ out.model = "cf"
    /\ out.phases = <<"ED", "PDS", "MCS">>

\* a merger-time entry that holds a time (or infinity)
Computed(v) == v \notin {NA, Diverges, NoRoot}

\* the last evaluation was an s=0 one with a density index of VALUE_DICT
AskedValidS0 == evals >= 1 /\ request.s = 0 /\ request.n \in ValueKeys

\* C6: merger_time does not raise when the MCS root finder gives up (the MCS
\* merger time is 0) nor when the ED root finder for n in {2, 4} has no root
\* in its bracket (the ED merger time is infinite); the other entries are
\* calculated and returned.
C6_MergerFallbacks ==
    AskedValidS0 =>
        /\ request.fail = "mcs" =>
              /\ err = "none"
              /\ stamp.t_mrg = evals
              /\ calc.t_mrg.MCS = 0
              /\ \A p \in {"ED", "ST", "PDS", "TW"} : Computed(calc.t_mrg[p])
        /\ request.fail = "ed_noroot" =>
              /\ err = "none"
              /\ stamp.t_mrg = evals
              /\ calc.t_mrg.ED = Inf
              /\ \A p \in {"ST", "PDS", "MCS", "TW"} : Computed(calc.t_mrg[p])

\* C6 witness: the MCS root finder gave up and the model ends at time 0
C6_Witness ==
    /\ AskedValidS0
    /\ request.fail = "mcs"
    /\ err = "none"
    /\ calc.t_mrg.MCS = 0
    /\ Last(phases) = "MCS"
    /\ calc.t_mrg_final = 0

\* the calc fields an evaluation of the branch of d writes
BranchFields(d) ==
    IF d.s = 2 THEN {"t_ch", "t_mrg", "t_mrg_final"}
    ELSE {"t_ch", "t_st", "t_pds", "t_mcs", "t_rev", "t_c01", "t_mrg",
          "t_mrg_final"}

\* C7: after an evaluation that a root finder aborted, calc is either
\* entirely what the previous evaluation left or entirely recalculated.
C7_AllOrNothing ==
    (evals >= 1 /\ err = "RuntimeError") =>
        \/ \A f \in CalcFields : stamp[f] # evals
        \/ \A f \in BranchFields(data) : stamp[f] = evals

\* C8: when the root finder of the PDS merger time gives up in an evaluation
\* of the wl or tw variant, which never has a PDS phase, the evaluation
\* still completes and hands out its sequence and outputs.
C8_UnusedFailureIsLocal ==
    (AskedValidS0 /\ request.model \in {"wl", "tw"} /\ request.fail = "pds") =>
        /\ err = "none"
        /\ out.eval = evals

\* the entered n has no entry for the entered s
InvalidCombination(r) ==
    \/ r.s = 0 /\ r.n \notin ValueKeys
    \/ r.s = 2 /\ r.n \notin S2Keys

\* C9: an evaluation of an n/s combination without table entry ends in a
\* lookup failure and hands out nothing.
C9_LookupFailure ==
    (evals >= 1 /\ InvalidCombination(request)) =>
        /\ err = "KeyError"
        /\ out.eval # evals

\* C10: the function dictionaries are complete before the first evaluation,
\* and every get_phases call of an evaluation, the one after the reset of
\* the LK start time included, reads only times calculated by this
\* evaluation.
C10_ResolvedBeforeSelection ==
    /\ registry = InitFunctions
    /\ \A i \in 1 .. Len(log) : log[i].stale = {}

\* C10 witness: an lk evaluation whose LK start time was reset and whose
\* phases were selected a second time
C10_Witness ==
    /\ evals >= 1
    /\ request.s = 0
    /\ request.model = "lk"
    /\ err = "none"
    /\ Len(log) = 2
    /\ log[2].seq = <<"ED", "LK">>

----------------------------------------------------------------------------
(* SpecJoin: the solutions of the anchored phases PDS, MCS, WL, LK and TW   *)
(* evaluated at their own start time.  A value is kept as the call that     *)
(* produces it: the function called and the argument handed to it.          *)

AnchoredPhases == {"PDS", "MCS", "WL", "LK", "TW"}

\* velocity_functions[n, phase] is a function of the radius (_ed_solution
\* "v" and "vr"), not of the time
TakesRadius(n, phase) == n \in {2, 4} /\ phase \in {"ED", "early"}

\* radius_functions[n, phase](t)
RadiusCall(n, phase, t) == [law |-> <<n, phase>>, of |-> "time", at |-> t]

\* velocity_functions[n, phase](x), x being the time t itself ("time") or
\* radius_functions[n, phase](t) ("radius")
VelocityCall(n, phase, kind, t) == [law |-> <<n, phase>>, of |-> kind, at |-> t]

\* velocity(phase, radius_time(phase, t)): the velocity of a phase at time t
Velocity(n, phase, t) ==
    VelocityCall(n, phase, IF TakesRadius(n, phase) THEN "radius" ELSE "time", t)

\* the time at which an anchored phase starts
StartTime(phase, d, c) ==
    CASE phase = "PDS" -> c.t_pds
      [] phase = "MCS" -> c.t_mcs
      [] phase = "WL"  -> c.t_st
      [] phase = "LK"  -> d.t_lk
      [] phase = "TW"  -> c.t_c01

\* the phase an anchored phase takes its start radius and velocity from
AnchorOf(phase, d, c) ==
    CASE phase = "PDS" -> IF c.t_pds < c.t_st THEN "ED" ELSE "ST"
      [] phase = "MCS" -> IF d.model = "wl" THEN "WL" ELSE "PDS"
      [] phase = "WL"  -> "ED"
      [] phase = "LK"  -> GetPhase(d.t_lk, d, c)
      [] phase = "TW"  -> GetPhase(c.t_c01, d, c)

\* what the solution of an anchored phase hands to the anchor's velocity
\* function: _wl_solution distinguishes n in (2, 4), the others pass the time
Passes(phase, n, anchor) ==
    IF phase = "WL" /\ n \in {2, 4} THEN "radius" ELSE "time"

\* radius_functions[n, phase] and velocity_functions[n, phase] of an
\* anchored phase at its own start time
StartValues(phase, n, d, c) ==
    LET anchor == AnchorOf(phase, d, c)
        start  == StartTime(phase, d, c)
    IN  [op |-> "start", phase |-> phase, anchor |-> anchor, start |-> start,
         r |-> RadiusCall(n, anchor, start),
         v |-> VelocityCall(n, anchor, Passes(phase, n, anchor), start)]

\* density indices of the constant table, transition times and variants
InitJoin ==
    /\ \E n \in ValueKeys, model \in Models, t_st \in Times, t_pds \in Times,
          t_mcs \in Times, t_c01 \in Times, t_lk \in Times :
          /\ data = [PhaseData(model, t_lk, Year) EXCEPT !.n = n]
          /\ calc = PhaseCalc(t_st, t_pds, t_mcs, t_c01, NoMrg)
    /\ stamp = [f \in CalcFields |-> 0]
    /\ cnst = data.n
    /\ widgets = InitWidgets
    /\ registry = InitFunctions
    /\ phases = <<>>
    /\ out = NoOutput
    /\ err = "none"
    /\ log = <<>>
    /\ evals = 0
    /\ plot = <<>>
    /\ request = NoRequest
    /\ pc = "join"
    /\ sol = NoSolution
    /\ emis = NoEmissivity
    /\ entered = <<>>

\* get_data(phase, t) for an anchored phase at its start time
EvaluateStart ==
    /\ pc = "join"
    /\ \E phase \in AnchoredPhases :
          /\ <<data.n, phase>> \in registry.radius
          /\ <<data.n, AnchorOf(phase, data, calc)>> \in registry.velocity
          /\ sol' = StartValues(phase, data.n, data, calc)
    /\ UNCHANGED <<data, calc, stamp, cnst, widgets, registry, phases, out,
                   err, log, evals, plot, request, pc, emis, entered>>

NextJoin == EvaluateStart

SpecJoin == InitJoin /\ [][NextJoin]_vars

\* C13: for every anchored phase (PDS, MCS, WL, LK, TW) and every n of the
\* constant table, the radius and the velocity of the phase at its own start
\* time are the radius and the velocity of its anchor phase at that time,
\* the n in {2, 4} whose ED velocity is a function of the radius included.
C13_JoinsAnchor ==
    sol.op = "start" =>
        /\ sol.r = RadiusCall(data.n, sol.anchor, sol.start)
        /\ sol.v = Velocity(data.n, sol.anchor, sol.start)

----------------------------------------------------------------------------
(* SpecInverse: the radius functions obtained by root finding on a time     *)
(* function: (n, ED) and (n, early) for n in (2, 4), (n, s2) and (n, s2r)   *)
(* for n in (0, 1, 2).  Radii are points 0 .. MaxR of a grid; a time        *)
(* function is continuous: it is 0 at radius 0 and moves by at most one     *)
(* tick between neighbouring radii.                                          *)

\* largest radius of the grid
MaxR == 3

Radii == 0 .. MaxR

TimeLaws ==
    {f \in [Radii -> 0 .. MaxR] :
        /\ f[0] = 0
        /\ \A r \in 1 .. MaxR : f[r] - f[r - 1] \in {0 - 1, 0, 1}}

\* brentq returning a root of the function wherever it has one
BrentqUnbracketed(f, a, b, t) ==
    IF (f[a] - t) * (f[b] - t) > 0 THEN {NoRoot}
    ELSE {r \in Radii : f[r] = t}

\* brentq(lambda r, t: f(r) - t, a, b, t): ValueError unless the function
\* changes sign over [a, b], else one of its roots in [a, b]
Brentq(f, a, b, t) ==
    IF (f[a] - t) * (f[b] - t) > 0 THEN {NoRoot}
    ELSE {r \in a .. b : f[r] = t}

InitInverse ==
    /\ data = EmptyData
    /\ calc = EmptyCalc
    /\ stamp = [f \in CalcFields |-> 0]
    /\ cnst = NA
    /\ widgets = InitWidgets
    /\ registry = InitFunctions
    /\ phases = <<>>
    /\ out = NoOutput
    /\ err = "none"
    /\ log = <<>>
    /\ evals = 0
    /\ plot = <<>>
    /\ request = NoRequest
    /\ pc = "inverse"
    /\ sol = NoSolution
    /\ emis = NoEmissivity
    /\ entered = <<>>

\* radius_functions[key](t) followed by time_functions[key] of the result;
\* a call does not depend on the calls before it, so every behaviour makes
\* one call
RadiusOfTime ==
    /\ pc = "inverse" /\ sol = NoSolution
    /\ \E key \in registry.time, f \in TimeLaws, upper \in 1 .. MaxR,
          t \in 0 .. MaxR :
          \E r \in Brentq(f, 0, upper, t) :
              sol' = [op |-> "radius", key |-> key, law |-> f, upper |-> upper,
                      t |-> t, r |-> r,
                      back |-> IF r = NoRoot THEN NA ELSE f[r]]
    /\ UNCHANGED <<data, calc, stamp, cnst, widgets, registry, phases, out,
                   err, log, evals, plot, request, pc, emis, entered>>

NextInverse == RadiusOfTime

SpecInverse == InitInverse /\ [][NextInverse]_vars

----------------------------------------------------------------------------
(* SNREmissivity: the emissivity window.  A snapshot is an instance of      *)
(* SNREmissivity; radii are twentieths of the shock radius.  The value of a *)
(* profile, of the emission coefficient and of an integrand is kept as the  *)
(* record of the inputs that determine it, so that two values are equal     *)
(* exactly when they were determined by the same inputs.                    *)

\* the owners of a cache: the class SNREmissivity (one cache for all
\* instances) or the instance (a new cache for every instance)
Class == "class"

Instance == "instance"

\* the shock radius (normalized radius 1)
ShockRadius == 20

\* r_c of the three self-similar solutions, to the nearest twentieth:
\* 1 / 1.181, 1 / 1.121 and 1 / 1.299
RcS0N7 == 17

RcS0 == 18

RcS2 == 15

\* (s ** 2 + b ** 2) ** 0.5 on the grid
NormRadius(b, s) ==
    CHOOSE r \in 0 .. 2 * ShockRadius :
        r * r <= s * s + b * b /\ s * s + b * b < (r + 1) * (r + 1)

\* the points (s, b) at which quad and nquad evaluate an integrand
SamplePoints == << <<0, 10>>, <<12, 12>>, <<12, 16>> >>

\* the radii at which quad evaluates the emission-measure integrands
ProfilePoints == <<10, 16, ShockRadius>>

\* photon energies entered in the emissivity window
Energies == {1, 2}

\* shock temperatures of a snapshot
Temperatures == {1, 2}

\* self.nrg_to_edt = KEV_TO_ERG / BOLTZMANN / T_s, times the energy
Edt(energy, T_s) == (2 * energy) \div T_s

CachedFunctions ==
    {"scalar_temperature", "scalar_density", "jnu_scaled",
     "intensity_integrand", "luminosity_integrand", "norm_radius"}

\* no instance was created
NoSnapshot == [tag |-> "none"]

\* every cache empty
NoCaches == [f \in CachedFunctions |-> [o \in {Class, Instance} |-> {}]]

\* every cache held by the class
CacheOwnerShared(f, tag) == Class

\* the object that holds the lru_cache of function f for an instance with
\* the given tag: the sedov profiles and norm_radius are cached on the
\* class, everything else is wrapped in __init__ on the instance
CacheOwner(f, tag) ==
    IF f = "norm_radius" THEN Class
    ELSE IF f \in {"scalar_temperature", "scalar_density"} /\ tag = "sedov" THEN Class
    ELSE Instance

\* the tag decided by the variant before the age
ModelTagVariantFirst(snr) ==
    IF snr.model = "wl" THEN "wl"
    ELSE IF snr.t <= snr.t_st \/ snr.s = 2 THEN "chev"
    ELSE "sedov"

\* the tag of the profile source
ModelTag(snr) ==
    IF snr.t <= snr.t_st \/ snr.s = 2 THEN "chev"
    ELSE IF snr.model = "wl" THEN "wl"
    ELSE "sedov"

\* the radius of the contact discontinuity of a chev snapshot
ContactRadius(snr) ==
    IF snr.s = 0 THEN (IF snr.n = 7 THEN RcS0N7 ELSE RcS0) ELSE RcS2

\* SNREmissivity.__init__ for the SuperNovaRemnant snr; a missing
\* calc["t_st"] raises KeyError and no instance exists
NewSnapshot(snr) ==
    IF snr.t_st = NA THEN NoSnapshot
    ELSE [tag    |-> ModelTag(snr),
          file   |-> IF ModelTag(snr) = "chev" THEN <<"Chev", snr.s, snr.n>>
                     ELSE IF ModelTag(snr) = "wl" THEN <<"WL", snr.c_tau>>
                     ELSE <<"sedov">>,
          comp   |-> snr.comp,
          T_s    |-> snr.T,
          r_c    |-> IF ModelTag(snr) = "chev" THEN ContactRadius(snr) ELSE 0,
          energy |-> NA,
          snr    |-> snr]

\* the values determined by a snapshot: profiles, emission coefficient and
\* integrands

TemperatureValue(snap, x) ==
    [file |-> snap.file, x |-> x,
     mu_norm |-> IF snap.tag = "chev" /\ x < snap.r_c THEN snap.comp ELSE 0]

DensityValue(snap, x) ==
    [file |-> snap.file, x |-> x,
     by |-> IF snap.tag = "sedov" THEN TemperatureValue(snap, x) ELSE <<>>]

JnuValue(snap, x, edt) ==
    [temp |-> TemperatureValue(snap, x), Z_sq |-> snap.comp, edt |-> edt]

\* multiplier of the integrands: ej_correction inside the contact radius
Multiplier(snap, radius) ==
    IF radius < snap.r_c THEN <<"ej_correction", snap.comp>> ELSE <<>>

IntensityValue(snap, s, b, edt) ==
    [jnu |-> JnuValue(snap, NormRadius(b, s), edt),
     density |-> DensityValue(snap, NormRadius(b, s)),
     multiplier |-> Multiplier(snap, NormRadius(b, s))]

LuminosityValue(snap, s, b, edt) ==
    [b |-> b, integrand |-> IntensityValue(snap, s, b, edt)]

\* what function f returns for the key when nothing is cached
TrueValue(f, snap, key) ==
    CASE f = "norm_radius"          -> NormRadius(key[1], key[2])
      [] f = "scalar_temperature"   -> TemperatureValue(snap, key[1])
      [] f = "scalar_density"       -> DensityValue(snap, key[1])
      [] f = "jnu_scaled"           -> JnuValue(snap, key[1], key[2])
      [] f = "intensity_integrand"  -> IntensityValue(snap, key[1], key[2], key[3])
      [] f = "luminosity_integrand" -> LuminosityValue(snap, key[1], key[2], key[3])

\* the entries for the key in the cache the instance looks up
Entries(st, f, key) ==
    {c \in st.cache[f][CacheOwner(f, st.snap.tag)] : c.key = key}

Hit(st, f, key) == Entries(st, f, key) # {}

\* the answer of a cache hit.  The state keeps which functions answered
\* from their cache and every answer that is not the value the inputs of
\* the instance determine.
Served(st, f, key, val) ==
    [st  |-> [st EXCEPT
                !.hits = @ \cup {f},
                !.stale = IF val = TrueValue(f, st.snap, key) THEN @
                          ELSE @ \cup {[f |-> f, key |-> key, val |-> val]}],
     val |-> val]

\* a cache hit: the stored value is returned
Serve(st, f, key) ==
    Served(st, f, key, (CHOOSE c \in Entries(st, f, key) : TRUE).val)

\* a cache miss: the computed value is stored and returned
Store(st, f, key, val) ==
    [st  |-> [st EXCEPT !.cache[f][CacheOwner(f, st.snap.tag)] =
                            @ \cup {[key |-> key, val |-> val]}],
     val |-> val]

\* SNREmissivity.norm_radius(b, s)
NormRadiusCall(st, b, s) ==
    IF Hit(st, "norm_radius", <<b, s>>) THEN Serve(st, "norm_radius", <<b, s>>)
    ELSE Store(st, "norm_radius", <<b, s>>, NormRadius(b, s))

\* self.scalar_temperature(x)
ScalarTemperature(st, x) ==
    IF Hit(st, "scalar_temperature", <<x>>)
        THEN Serve(st, "scalar_temperature", <<x>>)
    ELSE Store(st, "scalar_temperature", <<x>>, TemperatureValue(st.snap, x))

\* the sedov fit of the density divided by the answer t of
\* _sedov_scalar_temp(x)
SedovDensity(t, x) ==
    Store(t.st, "scalar_density", <<x>>,
          [file |-> t.st.snap.file, x |-> x, by |-> t.val])

\* self.scalar_density(x)
ScalarDensity(st, x) ==
    IF Hit(st, "scalar_density", <<x>>) THEN Serve(st, "scalar_density", <<x>>)
    ELSE IF st.snap.tag = "sedov" THEN SedovDensity(ScalarTemperature(st, x), x)
    ELSE Store(st, "scalar_density", <<x>>, DensityValue(st.snap, x))

\* the emission coefficient for the answer t of self.scalar_temperature(x)
JnuOfTemperature(t, x, edt) ==
    Store(t.st, "jnu_scaled", <<x, edt>>,
          [temp |-> t.val, Z_sq |-> t.st.snap.comp, edt |-> edt])

\* self._jnu_scaled(x, edt)
JnuScaled(st, x, edt) ==
    IF Hit(st, "jnu_scaled", <<x, edt>>) THEN Serve(st, "jnu_scaled", <<x, edt>>)
    ELSE JnuOfTemperature(ScalarTemperature(st, x), x, edt)

\* the product for the answers j of self._jnu_scaled(radius, edt) and d of
\* self.scalar_density(radius)
Product(j, d, radius) ==
    [st  |-> d.st,
     val |-> [jnu |-> j.val, density |-> d.val,
              multiplier |-> Multiplier(d.st.snap, radius)]]

\* self.scalar_density(radius) after the answer j of self._jnu_scaled
DensityAfter(j, radius) == Product(j, ScalarDensity(j.st, radius), radius)

\* self._jnu_scaled(radius, edt) after the answer r of self.norm_radius
JnuAfter(r, edt) == DensityAfter(JnuScaled(r.st, r.val, edt), r.val)

\* the body shared by _intensity_integrand and _luminosity_integrand
IntegrandBody(st, s, b, edt) == JnuAfter(NormRadiusCall(st, b, s), edt)

\* the value v of the body stored as f(s, b, edt)
StoreIntegrand(v, f, s, b, edt) ==
    Store(v.st, f, <<s, b, edt>>,
          IF f = "luminosity_integrand" THEN [b |-> b, integrand |-> v.val]
          ELSE v.val)

\* self._intensity_integrand(s, b, edt)
IntensityIntegrand(st, s, b, edt) ==
    IF Hit(st, "intensity_integrand", <<s, b, edt>>)
        THEN Serve(st, "intensity_integrand", <<s, b, edt>>)
    ELSE StoreIntegrand(IntegrandBody(st, s, b, edt),
                        "intensity_integrand", s, b, edt)

\* self._luminosity_integrand(s, b, edt)
LuminosityIntegrand(st, s, b, edt) ==
    IF Hit(st, "luminosity_integrand", <<s, b, edt>>)
        THEN Serve(st, "luminosity_integrand", <<s, b, edt>>)
    ELSE StoreIntegrand(IntegrandBody(st, s, b, edt),
                        "luminosity_integrand", s, b, edt)

\* one evaluation of an integrand by a quadrature; "side" is the integrand
\* of lum_r and lum_f: _luminosity_integrand times _reverse or _forward,
\* which call norm_radius
Evaluate(st, c) ==
    CASE c.f = "intensity"   -> IntensityIntegrand(st, c.s, c.b, c.edt).st
      [] c.f = "luminosity"  -> LuminosityIntegrand(st, c.s, c.b, c.edt).st
      [] c.f = "side"        -> NormRadiusCall(
                                   LuminosityIntegrand(st, c.s, c.b, c.edt).st,
                                   c.b, c.s).st
      [] c.f = "density"     -> ScalarDensity(st, c.x).st
      [] c.f = "temperature" -> ScalarTemperature(ScalarDensity(st, c.x).st, c.x).st

RECURSIVE Quadrature(_, _)

\* the evaluations of a quadrature, in order
Quadrature(st, calls) ==
    IF calls = <<>> THEN st
    ELSE Quadrature(Evaluate(st, Head(calls)), Tail(calls))

\* the integrand f at every sample point for one edt
OverSamples(f, edt) ==
    [i \in 1 .. Len(SamplePoints) |->
        [f |-> f, s |-> SamplePoints[i][1], b |-> SamplePoints[i][2], edt |-> edt]]

\* specific_intensity(b) for the energy of the window
SpecificIntensity(st) ==
    Quadrature(st, OverSamples("intensity", Edt(st.snap.energy, st.snap.T_s)))

\* one nquad over the energies emin .. emax
OverEnergies(st, f) ==
    Quadrature(Quadrature(st, OverSamples(f, Edt(1, st.snap.T_s))),
               OverSamples(f, Edt(2, st.snap.T_s)))

\* luminosity_spectrum(energy) over the energies emin .. emax
LuminositySpectrum(st) == OverEnergies(st, "luminosity")

\* emission_measure(): integrand and temp_integrand at the profile points
EmissionMeasure(st) ==
    Quadrature(
        Quadrature(st, [i \in 1 .. Len(ProfilePoints) |->
                           [f |-> "density", x |-> ProfilePoints[i]]]),
        [i \in 1 .. Len(ProfilePoints) |->
            [f |-> "temperature", x |-> ProfilePoints[i]]])

\* total_luminosity(): the reverse and the forward integral of a chev
\* snapshot, one integral otherwise
TotalLuminosity(st) ==
    IF st.snap.tag = "chev"
    THEN OverEnergies(OverEnergies(st, "side"), "side")
    ELSE OverEnergies(st, "luminosity")

\* the combined value taken from the forward part alone
CombinedForwardOnly(forward, reverse) == forward

\* em_f + em_r, lum_r + lum_f
Combined(forward, reverse) == forward + reverse

\* if self.data["model"] == "chev"
ReportsSplit(snap) == snap.tag = "chev"

\* the values update_output hands to the output fields; q are the results
\* of the quadratures
OutputFields(snap, q) ==
    IF ReportsSplit(snap)
    THEN [lum |-> Combined(q.lum_f, q.lum_r), lum_f |-> q.lum_f, lum_r |-> q.lum_r,
          em |-> Combined(q.em_f, q.em_r), em_f |-> q.em_f, em_r |-> q.em_r]
    ELSE [lum |-> q.lum_f, em |-> q.em_f]

\* the values update_luminosity_spectrum hands to the output fields
LuminosityFields(snap, q) ==
    IF ReportsSplit(snap)
    THEN [lum |-> Combined(q.lum_f, q.lum_r), lum_f |-> q.lum_f, lum_r |-> q.lum_r]
    ELSE [lum |-> q.lum_f]

\* results of the quadratures: forward (or only) and reverse part of the
\* emission measure and of the luminosity
QuadResults ==
    {q \in [em_f : {1, 2}, em_r : {1, 2}, lum_f : {1, 2}, lum_r : {1, 2}] :
        q.em_f # q.em_r /\ q.lum_f = q.em_r /\ q.lum_r = q.em_f}

\* the SuperNovaRemnant objects for which the emissivity window is opened
\* (emissivity_model_exists): s = 2 with n = 7, before (no t_st) or after
\* an s = 0 evaluation, and s = 0 with the standard or the cloudy variant,
\* with n in (7, 12) at an age up to t_st or with n = 12 after t_st
SnrStates ==
    {snr \in [s : {0, 2}, n : {7, 12}, model : {"cf", "wl"}, t : {Year + 1},
              t_st : {NA, Year, Year + 1, MaxT}, c_tau : {1}, comp : {1, 2},
              T : Temperatures] :
        /\ snr.s = 2 => (snr.n = 7 /\ snr.model = "cf" /\ snr.t_st \in {NA, Year})
        /\ snr.s = 0 => snr.t_st # NA
        /\ (snr.s = 0 /\ snr.t > snr.t_st) => snr.n = 12}

InitEmissivity ==
    [op |-> "none", snap |-> NoSnapshot, cache |-> NoCaches, hits |-> {},
     stale |-> {}, output |-> <<>>, err |-> "none"]

InitEmis ==
    /\ data = EmptyData
    /\ calc = EmptyCalc
    /\ stamp = [f \in CalcFields |-> 0]
    /\ cnst = NA
    /\ widgets = InitWidgets
    /\ registry = InitFunctions
    /\ phases = <<>>
    /\ out = NoOutput
    /\ err = "none"
    /\ log = <<>>
    /\ evals = 0
    /\ plot = <<>>
    /\ request = NoRequest
    /\ pc = "emissivity"
    /\ sol = NoSolution
    /\ emis = InitEmissivity
    /\ entered = <<>>

\* SNREmissivity(snr, root): a new instance with new instance caches; the
\* caches of the class stay
Construct ==
    /\ pc = "emissivity"
    /\ \E snr \in SnrStates :
          emis' = [emis EXCEPT
                     !.op = "construct",
                     !.snap = NewSnapshot(snr),
                     !.cache = [f \in CachedFunctions |->
                                   [emis.cache[f] EXCEPT ![Instance] = {}]],
                     !.hits = {},
                     !.stale = {},
                     !.output = <<>>,
                     !.err = IF snr.t_st = NA THEN "KeyError" ELSE "none"]
    /\ UNCHANGED <<data, calc, stamp, cnst, widgets, registry, phases, out,
                   err, log, evals, plot, request, pc, sol, entered>>

\* self.data.update(gui.InputParam.get_values(self.root))
ReadInputs(st, energy) ==
    [st EXCEPT !.snap.energy = energy, !.hits = {}, !.stale = {}]

\* SNREmissivity.update_output
EmUpdateOutput ==
    /\ pc = "emissivity"
    /\ emis.snap # NoSnapshot
    /\ \E energy \in Energies :
          \E st \in {TotalLuminosity(
                       EmissionMeasure(
                         SpecificIntensity(
                           LuminositySpectrum(ReadInputs(emis, energy)))))} :
              \E q \in QuadResults :
                  emis' = [st EXCEPT !.op = "update_output",
                                     !.output = OutputFields(st.snap, q),
                                     !.err = "none"]
    /\ UNCHANGED <<data, calc, stamp, cnst, widgets, registry, phases, out,
                   err, log, evals, plot, request, pc, sol, entered>>

\* SNREmissivity.update_specific_intensity
UpdateSpecificIntensity ==
    /\ pc = "emissivity"
    /\ emis.snap # NoSnapshot
    /\ \E energy \in Energies :
          emis' = [SpecificIntensity(ReadInputs(emis, energy)) EXCEPT
                      !.op = "update_specific_intensity",
                      !.output = <<>>, !.err = "none"]
    /\ UNCHANGED <<data, calc, stamp, cnst, widgets, registry, phases, out,
                   err, log, evals, plot, request, pc, sol, entered>>

\* SNREmissivity.update_luminosity_spectrum
UpdateLuminositySpectrum ==
    /\ pc = "emissivity"
    /\ emis.snap # NoSnapshot
    /\ \E energy \in Energies :
          \E st \in {TotalLuminosity(
                       LuminositySpectrum(ReadInputs(emis, energy)))} :
              \E q \in QuadResults :
                  /\ q.em_f = 1
                  /\ emis' = [st EXCEPT !.op = "update_luminosity_spectrum",
                                        !.output = LuminosityFields(st.snap, q),
                                        !.err = "none"]
    /\ UNCHANGED <<data, calc, stamp, cnst, widgets, registry, phases, out,
                   err, log, evals, plot, request, pc, sol, entered>>

NextEmis ==
    \/ Construct
    \/ EmUpdateOutput
    \/ UpdateSpecificIntensity
    \/ UpdateLuminositySpectrum

SpecEmis == InitEmis /\ [][NextEmis]_vars

\* C11: a memoized profile, emission-coefficient or integrand value is
\* returned only for a call whose result-determining inputs are those under
\* which it was cached: every value served from a cache is the value the
\* inputs of the calling snapshot determine, and no entry the snapshot can
\* look up was created under other inputs.
C11_CachesSound ==
    /\ emis.stale = {}
    /\ emis.snap # NoSnapshot =>
          \A f \in CachedFunctions :
              \A c \in emis.cache[f][CacheOwner(f, emis.snap.tag)] :
                  c.val = TrueValue(f, emis.snap, c.key)

\* a chev snapshot, created after a sedov snapshot filled the caches of the
\* class, is served from its own caches and from norm_radius
C11_Witness ==
    /\ emis.op = "update_specific_intensity" /\ emis.snap.tag = "chev"
    /\ emis.cache["scalar_temperature"][Class] # {}
    /\ {"norm_radius", "jnu_scaled", "scalar_density"} \subseteq emis.hits

\* C15: for a chev snapshot the combined emission measure is the sum of the
\* forward and reverse emission measures and the combined luminosity is the
\* sum of the forward and reverse luminosities.
C15_CombinedIsSum ==
    (emis.snap # NoSnapshot /\ emis.snap.tag = "chev") =>
        /\ emis.op \in {"update_output", "update_luminosity_spectrum"} =>
              emis.output.lum = emis.output.lum_f + emis.output.lum_r
        /\ emis.op = "update_output" =>
              emis.output.em = emis.output.em_f + emis.output.em_r

C15_Witness ==
    /\ emis.op = "update_output" /\ emis.snap.tag = "chev"
    /\ emis.output.em_f = 1 /\ emis.output.em_r = 2 /\ emis.output.em = 3
    /\ emis.output.lum_f = 2 /\ emis.output.lum_r = 1 /\ emis.output.lum = 3

\* C18: every snapshot has exactly one profile source: chev if the age is
\* at most t_st or s = 2, otherwise wl if the variant is wl, otherwise
\* sedov; only a chev snapshot has a non-zero r_c and reports the emission
\* measure and the luminosity split into forward and reverse parts.
C18_ProfileSource ==
    emis.snap # NoSnapshot =>
        /\ emis.snap.tag \in {"chev", "wl", "sedov"}
        /\ emis.snap.tag = "chev" <=>
              (emis.snap.snr.t <= emis.snap.snr.t_st \/ emis.snap.snr.s = 2)
        /\ emis.snap.tag = "wl" <=>
              (~(emis.snap.snr.t <= emis.snap.snr.t_st \/ emis.snap.snr.s = 2)
                 /\ emis.snap.snr.model = "wl")
        /\ emis.snap.r_c # 0 <=> emis.snap.tag = "chev"
        /\ emis.op = "update_output" =>
              /\ {"em", "lum"} \subseteq DOMAIN emis.output
              /\ emis.snap.tag = "chev" <=>
                    {"em_f", "em_r", "lum_f", "lum_r"} \subseteq DOMAIN emis.output
              /\ emis.snap.tag # "chev" =>
                    {"em_f", "em_r", "lum_f", "lum_r"} \cap DOMAIN emis.output = {}

\* the cloudy variant at the age t_st: a chev snapshot with split outputs
C18_Witness ==
    /\ emis.op = "update_output" /\ emis.snap.tag = "chev"
    /\ emis.snap.snr.model = "wl" /\ emis.snap.snr.s = 0
    /\ emis.snap.snr.t = emis.snap.snr.t_st
    /\ emis.snap.r_c = RcS0N7
    /\ "em_r" \in DOMAIN emis.output

----------------------------------------------------------------------------
(* Further claims about update_output (Spec). *)

\* the rounded merger time of the closing phase for the inputs in effect
\* when the evaluation ends: the LK merger time is the one calculated for
\* the reset LK start time if a reset took place
FinalMerger ==
    IF Last(phases) = "LK" /\ out.mrg_lk # NA THEN Round(out.mrg_lk)
    ELSE Round(calc.t_mrg[Last(phases)])

\* C14: after a completed evaluation t_mrg_final is the rounded merger time
\* of the last phase of the returned sequence, calculated for the inputs in
\* effect at the end of the evaluation (the LK start time after its reset to
\* round(t_st) included), and the age is not later than t_mrg_final.
C14_FinalMergerTime ==
    (evals >= 1 /\ err = "none") =>
        /\ calc.t_mrg_final = FinalMerger
        /\ data.t <= calc.t_mrg_final

\* C17: the dictionaries hold a radius and a velocity function for every n
\* of the constant table and each of ED, ST, PDS, MCS, LK, TW, WL, early,
\* late; a time function exactly for n in {2, 4} with ED, early and for n in
\* {0, 1, 2} with s2, s2r; s2 and s2r entries exactly for n in {0, 1, 2, 7};
\* and every state after construction holds exactly these entries.
C17_RegistryFixed ==
    /\ \A n \in ValueKeys :
         \A p \in {"ED", "ST", "PDS", "MCS", "LK", "TW", "WL", "early", "late"} :
             <<n, p>> \in registry.radius /\ <<n, p>> \in registry.velocity
    /\ registry.time = ({2, 4} \X {"ED", "early"}) \cup ({0, 1, 2} \X {"s2", "s2r"})
    /\ \A f \in {"radius", "velocity"} :
         /\ {k \in registry[f] : k[2] \in {"s2", "s2r"}}
                = {0, 1, 2, 7} \X {"s2", "s2r"}
         /\ \A k \in registry[f] : k[2] \notin {"s2", "s2r"} => k[1] \in ValueKeys
    /\ registry = InitFunctions

\* two evaluations used the dictionaries, the second one in a wind
\* environment with n = 2
C17_Witness ==
    /\ evals = MaxEvals /\ err = "none"
    /\ data.s = 2 /\ data.n = 2 /\ phases = <<"s2">>
    /\ <<2, "s2">> \in registry.time

\* C20: after every completed s=0 evaluation the variant is tw only if
\* 0.1 * t_c <= t_pds; an evaluation asked for tw with 0.1 * t_c > t_pds
\* ends with the TW button disabled, the standard variant and a sequence
\* selected again without TW; with 0.1 * t_c <= t_pds the TW button is
\* enabled.
C20_TwOnlyWhenValid ==
    (evals >= 1 /\ request.s = 0 /\ err = "none") =>
        /\ data.model = "tw" => calc.t_c01 <= calc.t_pds
        /\ (request.model = "tw" /\ calc.t_c01 > calc.t_pds) =>
              /\ widgets.tw = "disabled"
              /\ widgets.model = "cf" /\ data.model = "cf"
              /\ Len(log) = 2 /\ Contains(log[1].seq, "TW")
              /\ phases = log[2].seq /\ ~Contains(phases, "TW")
        /\ calc.t_c01 <= calc.t_pds => widgets.tw = "normal"
        /\ calc.t_c01 > calc.t_pds => widgets.tw = "disabled"

\* the tw variant was asked for with 0.1 * t_c > t_pds and given up
C20_Witness ==
    /\ evals >= 1 /\ request.s = 0 /\ err = "none"
    /\ request.model = "tw" /\ calc.t_c01 > calc.t_pds
    /\ widgets.tw = "disabled" /\ data.model = "cf"
    /\ phases = <<"ED", "ST", "PDS", "MCS">>

\* C21: a top-level evaluation returns after at most one re-entry of
\* update_output: a second call is entered only from the cloudy or the
\* high-temperature variant, runs with the standard variant and is the
\* last one.
C21_OneReentry ==
    evals >= 1 =>
        /\ Len(entered) \in {1, 2}
        /\ entered[1] = request.model
        /\ Len(entered) = 2 =>
              /\ entered[1] \in {"wl", "tw"}
              /\ entered[2] = "cf"

\* the cloudy variant re-entered as the standard variant, which completes
C21_Witness ==
    /\ evals >= 1 /\ entered = <<"wl", "cf">>
    /\ err = "none" /\ out.eval = evals /\ out.model = "cf"

----------------------------------------------------------------------------
(* SpecLimits: get_limits, the x-axis limits of the output plot, called for *)
(* the data and calc of a completed evaluation with a range, an xmin and an *)
(* xmax read from the plot widgets.                                         *)

\* largest value entered in the xmin and xmax spinboxes
MaxX == MaxT + 1

\* lines 301-310: the end forced by the LK or TW start or by an ED merger
\* before t_st
LimitsAltUpper(d, c) ==
    IF d.model = "lk" THEN d.t_lk
    ELSE IF d.model = "tw" THEN c.t_c01
    ELSE IF d.s # 2 /\ c.t_mrg.ED < c.t_st THEN c.t_mrg.ED
    ELSE Inf

\* lines 311-318: the range "Current" is replaced by the phase at the age,
\* or by the label of the dropdown that stands for it
CurrentRange(range, d, c, values) ==
    IF range # "Current" THEN range
    ELSE IF GetPhase(d.t, d, c) \in {"ED", "ST"} /\ Contains(values, "ED-ST")
        THEN "ED-ST"
    ELSE IF GetPhase(d.t, d, c) \in {"ED", "WL"} /\ Contains(values, "ED-WL")
        THEN "ED-WL"
    ELSE GetPhase(d.t, d, c)

\* lines 323-341: the limits of a range
RangeLimits(range, xmin, xmax, d, c) ==
    CASE range \in {"ED-ST", "ED", "ST"} ->
             <<0, Min({c.t_pds, c.t_mrg.ST, LimitsAltUpper(d, c)})>>
      [] range = "PDS" ->
             <<c.t_pds, Min({c.t_mcs, c.t_mrg.PDS, LimitsAltUpper(d, c)})>>
      [] range = "MCS" -> <<c.t_mcs, c.t_mrg.MCS>>
      [] range = "Custom" -> <<xmin, xmax>>
      [] range = "LK" -> <<d.t_lk, c.t_mrg.LK>>
      [] range = "TW" -> <<c.t_c01, c.t_mrg.TW>>
      [] range = "s2" -> <<0, c.t_ch>>
      [] range \in {"WL", "ED-WL"} ->
             <<0, Min({c.t_mrg.WL, c.t_mcs, LimitsAltUpper(d, c)})>>
      [] OTHER -> <<0, Min({c.t_rev, c.t_mrg_final})>>

\* lines 350-365: the Custom range is kept below the maximum of the xmax
\* spinbox
ClipCustom(limits, xmin, xmax, maximum) ==
    IF limits[1] > maximum /\ limits[2] > maximum
        THEN [limits |-> <<0, maximum>>, xmin |-> 0, xmax |-> maximum]
    ELSE IF limits[2] > maximum
        THEN [limits |-> <<limits[1], maximum>>, xmin |-> xmin, xmax |-> maximum]
    ELSE IF limits[1] > maximum
        THEN [limits |-> <<maximum, limits[1]>>, xmin |-> maximum, xmax |-> xmax]
    ELSE [limits |-> limits, xmin |-> xmin, xmax |-> xmax]

\* get_limits: the limits returned and data["range"], data["xmin"] and
\* data["xmax"] after the call; maximum is the "to" option of the xmax
\* spinbox
GetLimits(range, xmin, xmax, d, c, values, maximum) ==
    LET r == CurrentRange(range, d, c, values)
        l == RangeLimits(r, xmin, xmax, d, c)
    IN  IF r # "Custom"
        THEN [range |-> r, limits |-> l, xmin |-> l[1], xmax |-> l[2]]
        ELSE [range |-> r] @@ ClipCustom(l, xmin, xmax, maximum)

\* the ranges that can be selected: the labels of the dropdown and the
\* range set by the xmin and xmax spinboxes
Selected(values) == {values[i] : i \in 1 .. Len(values)} \cup {"Custom"}

\* the state after an evaluation: the variant, two transition times and
\* the merger time m are free, t_mrg_final is the rounded merger time of
\* the last phase
LimitsInputs(d, c) ==
    \E s \in {0, 2}, model \in Models, t_st \in Times, t_pds \in Times,
       m \in Times, t \in {Year, MaxT} :
        /\ s = 2 => (t_st = Year /\ t_pds = Year)
        /\ d = [PhaseData(model, Year, m) EXCEPT !.s = s, !.t = Min({t, Round(m)})]
        /\ c = [PhaseCalc(t_st, t_pds, MaxT, Year,
                          MrgOf(m, m, m, m,
                                IF model = "lk" THEN m ELSE NA, m,
                                IF model = "wl" THEN m ELSE NA))
                  EXCEPT !.t_rev = Year, !.t_ch = m, !.t_mrg_final = Round(m)]

InitLimits ==
    /\ LimitsInputs(data, calc)
    /\ stamp = [f \in CalcFields |-> 0]
    /\ cnst = NA
    /\ widgets = [InitWidgets EXCEPT !.values = DropdownValues(data, calc)]
    /\ registry = InitFunctions
    /\ phases = GetPhases(data, calc)
    /\ out = NoOutput
    /\ err = "none"
    /\ log = <<>>
    /\ evals = 0
    /\ plot = <<>>
    /\ request = NoRequest
    /\ pc = "limits"
    /\ sol = NoSolution
    /\ emis = NoEmissivity
    /\ entered = <<>>

\* self.graph.display_plot(self.get_limits()) for a range and spinbox
\* values read from the widgets; one call per behaviour
CallGetLimits ==
    /\ pc = "limits" /\ sol = NoSolution
    /\ \E range \in Selected(widgets.values), xmin \in 0 .. MaxX,
          xmax \in 0 .. MaxX :
          /\ range # "Custom" => (xmin = 0 /\ xmax = 0)
          /\ sol' = [op |-> "limits", asked |-> range, xmin |-> xmin,
                     xmax |-> xmax, maximum |-> calc.t_mrg_final,
                     ret |-> GetLimits(range, xmin, xmax, data, calc,
                                       widgets.values, calc.t_mrg_final)]
    /\ UNCHANGED <<data, calc, stamp, cnst, widgets, registry, phases, out,
                   err, log, evals, plot, request, pc, emis, entered>>

NextLimits == CallGetLimits

SpecLimits == InitLimits /\ [][NextLimits]_vars

\* C22: for the Custom range the limits returned by get_limits hold no
\* value greater than the maximum of the xmax spinbox (t_mrg_final),
\* whatever xmin and xmax are relative to that maximum, and the returned
\* limits are the stored xmin and xmax.
C22_CustomWithinMaximum ==
    (sol.op = "limits" /\ sol.asked = "Custom") =>
        /\ sol.ret.limits[1] <= sol.maximum
        /\ sol.ret.limits[2] <= sol.maximum
        /\ sol.ret.limits = <<sol.ret.xmin, sol.ret.xmax>>

----------------------------------------------------------------------------
(* SpecSpecific: get_specific_data, the outputs at the current age, called  *)
(* for the data and calc of a completed evaluation.  The times that decide  *)
(* the reverse-shock solution are products of t_ch with constants of the    *)
(* density index n; they are compared in thousandths of a tick.             *)

\* largest age of the remnant in ticks
MaxAge == 4 * MaxT + 2

\* VALUE_DICT[n].t_rchg in thousandths
TRchg(n) ==
    CASE n = 0 -> 495 [] n = 2 -> 387 [] n = 4 -> 1200 [] n = 6 -> 513
      [] n = 7 -> 363 [] n = 8 -> 292 [] n = 9 -> 249 [] n = 10 -> 220
      [] n = 12 -> 182 [] n = 14 -> 157

\* line 157: the root newton finds from 3 * t_ch for the late reverse-shock
\* radius of density index n, in thousandths of t_ch
TRevOverTch(n) ==
    CASE n = 0 -> 2581 [] n = 2 -> 4140 [] n = 4 -> 2562 [] n = 6 -> 2805
      [] n = 7 -> 2686 [] n = 8 -> 2672 [] n = 9 -> 2713 [] n = 10 -> 2741
      [] n = 12 -> 2737 [] n = 14 -> 2859

\* line 157: calc["t_rev"] in thousandths of a tick
TRev(n, t_ch) == TRevOverTch(n) * t_ch

\* the reverse-shock solution without the test on t_rev
ReverseSolutionNoEnd(d, c, cn) ==
    IF d.s = 2 THEN "s2r"
    ELSE IF 1000 * d.t < TRchg(cn) * c.t_ch THEN "early"
    ELSE "late"

\* lines 436-441: the solution that gives rr and vr; "N/A" when neither
\* branch runs and the defaults of lines 180-182 stay
ReverseSolution(d, c, cn) ==
    IF d.s = 2 THEN "s2r"
    ELSE IF 1000 * d.t < TRchg(cn) * c.t_ch THEN "early"
    ELSE IF 1000 * d.t < c.t_rev THEN "late"
    ELSE "N/A"

\* get_specific_data with the defaults of output_data: the solutions that
\* give r, v, T and rr, vr; Tr is computed exactly when vr is
GetSpecificData(d, c, cn) ==
    [forward |-> GetPhase(d.t, d, c),
     rr |-> ReverseSolution(d, c, cn),
     vr |-> ReverseSolution(d, c, cn),
     Tr |-> ReverseSolution(d, c, cn)]

\* the state after lines 124-228: the density index, the age, t_ch and the
\* variant are free; s=2 has a solution for the indices of S2Keys only
SpecificInputs(d, c, cn) ==
    \E s \in {0, 2}, n \in ValueKeys \cup S2Keys, model \in {"cf", "wl"},
       t \in 0 .. MaxAge, t_ch \in Times :
        /\ s = 0 => n \in ValueKeys
        /\ s = 2 => (n \in S2Keys /\ model = "cf" /\ t <= Round(t_ch))
        /\ d = [PhaseData(model, Year, Year) EXCEPT !.s = s, !.n = n, !.t = t]
        /\ c = [PhaseCalc(t_ch, MaxAge, MaxAge, Year,
                          MrgOf(MaxAge, MaxAge, MaxAge, MaxAge, NA, Year,
                                IF model = "wl" THEN MaxAge ELSE NA))
                  EXCEPT !.t_ch = t_ch,
                         !.t_rev = IF s = 0 THEN TRev(n, t_ch) ELSE NA,
                         !.t_mrg_final = IF s = 0 THEN MaxAge ELSE Round(t_ch)]
        /\ cn = IF s = 0 THEN n ELSE NA

InitSpecific ==
    /\ SpecificInputs(data, calc, cnst)
    /\ stamp = [f \in CalcFields |-> 0]
    /\ widgets = InitWidgets
    /\ registry = InitFunctions
    /\ phases = GetPhases(data, calc)
    /\ out = NoOutput
    /\ err = "none"
    /\ log = <<>>
    /\ evals = 0
    /\ plot = <<>>
    /\ request = NoRequest
    /\ pc = "specific"
    /\ sol = NoSolution
    /\ emis = NoEmissivity
    /\ entered = <<>>

\* line 229: output_data.update(self.get_specific_data())
CallGetSpecificData ==
    /\ pc = "specific" /\ sol = NoSolution
    /\ sol' = [op |-> "specific"] @@ GetSpecificData(data, calc, cnst)
    /\ UNCHANGED <<data, calc, stamp, cnst, widgets, registry, phases, out,
                   err, log, evals, plot, request, pc, emis, entered>>

NextSpecific == CallGetSpecificData

SpecSpecific == InitSpecific /\ [][NextSpecific]_vars

\* C23: for s=0 the reverse-shock outputs rr, vr and Tr are "N/A" exactly
\* when the age is not below t_rev; below t_rchg * t_ch they come from the
\* early reverse-shock solution, from there up to t_rev from the late one;
\* for s=2 they are always numeric.
C23_ReverseOutputs ==
    sol.op = "specific" =>
        /\ sol.vr = sol.rr /\ sol.Tr = sol.rr
        /\ data.s = 0 =>
              /\ sol.rr = "N/A" <=> 1000 * data.t >= calc.t_rev
              /\ 1000 * data.t < TRchg(cnst) * calc.t_ch => sol.rr = "early"
              /\ (1000 * data.t >= TRchg(cnst) * calc.t_ch
                    /\ 1000 * data.t < calc.t_rev) => sol.rr = "late"
        /\ data.s = 2 => sol.rr = "s2r"

\* C23 witness: an age at which the reverse shock has reached the centre,
\* for the density index whose t_rchg is above 1
C23_Witness ==
    /\ sol.op = "specific" /\ data.s = 0 /\ cnst = 4
    /\ 1000 * data.t >= calc.t_rev
    /\ sol.rr = "N/A" /\ sol.forward = "ST"

----------------------------------------------------------------------------
(* SpecLk: successive s=0 evaluations in which the PDS onset time changes   *)
(* from one evaluation to the next and the LK start time is entered freely, *)
(* also as the -1 that stands for a missing previous t_pds.                 *)

\* LK start times entered: -1 year, the years of the span and a time
\* between two years
LkTimes == {0 - Year} \cup ETimes \cup {Round(MaxET)}

\* the numeric results with the PDS onset p and the LK merger time x
OracleLk(a, b, p, x) == [Oracle(a, b, x, "none") EXCEPT !.t_pds = p]

InitLk ==
    /\ data = EmptyData
    /\ calc = EmptyCalc
    /\ stamp = [f \in CalcFields |-> 0]
    /\ cnst = NA
    /\ widgets = InitWidgets
    /\ registry = InitFunctions
    /\ phases = <<>>
    /\ out = NoOutput
    /\ err = "none"
    /\ log = <<>>
    /\ evals = 0
    /\ plot = <<>>
    /\ request = NoRequest @@ [pds_old |-> NA]
    /\ pc = "lk"
    /\ sol = NoSolution
    /\ emis = NoEmissivity
    /\ entered = <<>>

\* one call of update_output from the window for s = 0, with its re-entries;
\* the request keeps pds_old as line 125 computes it at the entry
UpdateOutputLk ==
    /\ pc = "lk"
    /\ evals < MaxEvals
    /\ \E model \in Models, t_lk \in LkTimes, a \in ETimes, b \in ETimes,
          p \in ETimes, x \in ETimes :
        LET u == [s |-> 0, n |-> 6, model |-> model, t_lk |-> t_lk,
                  t_tw |-> MaxET, t |-> MaxET]
        IN  /\ Selectable(widgets, model)
            /\ \E e \in {UpdateOutputBody(Entry(u), u, OracleLk(a, b, p, x),
                                          evals + 1)} :
                /\ data' = e.data
                /\ calc' = e.calc
                /\ stamp' = e.stamp
                /\ cnst' = e.cnst
                /\ widgets' = e.widgets
                /\ phases' = e.phases
                /\ out' = e.out
                /\ err' = e.err
                /\ log' = e.log
                /\ plot' = IF e.out.eval = evals + 1
                       THEN GetPlotData(e.phases, e.data, e.calc) ELSE plot
                /\ request' = [s |-> 0, n |-> 6, model |-> model, t_lk |-> t_lk,
                           t_tw |-> MaxET, t |-> MaxET, fail |-> "none",
                           pds_old |-> PdsOld(calc)]
                /\ evals' = evals + 1
                /\ entered' = e.calls
                /\ UNCHANGED <<registry, pc, sol, emis>>

NextLk == UpdateOutputLk

SpecLk == InitLk /\ [][NextLk]_vars

\* the LK start time as lines 167-170 leave it
StartAfterStep == 
    IF request.t_lk = request.pds_old THEN calc.t_pds ELSE request.t_lk

\* lines 219-225 replaced the LK start time
StartWasReset == data.model = "lk" /\ StartAfterStep > calc.t_mrg_final

----------------------------------------------------------------------------
(* Claims about get_phase against the selected phase sequence (SpecPhases). *)

\* line 178 / line 217: t_mrg_final of the selected sequence
MergerFinal == Round(calc.t_mrg[Last(phases)])

\* C25: for every age from 0 to t_mrg_final the phase get_phase returns is
\* one of the phases get_phases selected for the same data and calc.
C25_PhaseOfAgeSelected ==
    pc # "input" =>
        \A t \in 0 .. MergerFinal : Contains(phases, GetPhase(t, data, calc))

\* the time at which a phase of the sequence starts
StartOf(phase) ==
    IF phase = "ED" THEN 0
    ELSE IF phase = "ST" THEN calc.t_st ELSE StartTime(phase, data, calc)

\* C26: in the standard and the wl variant every phase of the selected
\* sequence starts no later than the merger time of the phase in front of
\* it; a sequence that lost ST because t_mrg[ED] < t_st therefore does not
\* go on with PDS or MCS.
C26_StartsBeforeMerger ==
    (pc # "input" /\ data.s = 0 /\ data.model \in {"cf", "wl"}) =>
        \A i \in 1 .. Len(phases) - 1 :
            StartOf(phases[i + 1]) <= calc.t_mrg[phases[i]]

----------------------------------------------------------------------------
(* Claims about the end of the model (Spec). *)

\* C27: after a completed s=0 evaluation t_mrg_final is not earlier than
\* the start of the last phase of the sequence, an MCS merger time of 0 put
\* in place of a failed root search included, and an age entered at or after
\* that start is not clamped to a value before it.
C27_FinalAfterTerminalStart ==
    (evals >= 1 /\ err = "none" /\ data.s = 0) =>
        /\ calc.t_mrg_final >= StartOf(Last(phases))
        /\ request.t >= StartOf(Last(phases)) =>
              data.t >= StartOf(Last(phases))

----------------------------------------------------------------------------
(* Claims about the anchors of the anchored phases (SpecJoin). *)

RECURSIVE AnchorChain(_, _, _, _)

\* a phase, its anchor, the anchor of its anchor, ... up to the first phase
\* that has no anchor, at most k anchors long
AnchorChain(phase, d, c, k) ==
    IF phase \notin AnchoredPhases \/ k = 0 THEN <<phase>>
    ELSE <<phase>> \o AnchorChain(AnchorOf(phase, d, c), d, c, k - 1)

\* C28: the anchor lookups of a phase form a chain without a repeated phase
\* that ends at ED or ST: the anchor of LK is never LK, the anchor of TW
\* never TW, PDS anchors to ED or ST, MCS to PDS or WL, and WL to ED.
C28_AnchorsAcyclic ==
    sol.op = "start" =>
        /\ sol.anchor = AnchorOf(sol.phase, data, calc)
        /\ NoDuplicates(AnchorChain(sol.phase, data, calc,
                                    Cardinality(AnchoredPhases)))
        /\ Last(AnchorChain(sol.phase, data, calc,
                            Cardinality(AnchoredPhases))) \in {"ED", "ST"}
        /\ sol.phase = "LK" => sol.anchor # "LK"
        /\ sol.phase = "TW" => sol.anchor # "TW"
        /\ sol.phase = "PDS" => sol.anchor \in {"ED", "ST"}
        /\ sol.phase = "MCS" => sol.anchor \in {"PDS", "WL"}
        /\ sol.phase = "WL" => sol.anchor = "ED"

\* C28 witness: the longest chain, an LK phase that starts in the MCS phase
C28_Witness ==
    /\ sol.op = "start" /\ sol.phase = "LK" /\ data.model = "lk"
    /\ AnchorChain("LK", data, calc, Cardinality(AnchoredPhases))
           = <<"LK", "MCS", "PDS", "ST">>

\* emissivity_model_exists: the value it returns when it returns
EmissivityModelExists(d, c, cn) ==
    \/ d.s = 2 /\ d.n = 7
    \/ /\ d.model \in {"cf", "wl"}
       /\ \/ 1000 * d.t < TRchg(cn) * c.t_ch /\ d.n \in {7, 12}
          \/ c.t_rev < d.t /\ d.t < Min({c.t_pds, c.t_mrg_final})

\* C29: an s=2 evaluation reads no field that only the s=0 branch writes:
\* whatever was evaluated before, emissivity_model_exists returns, and it
\* returns true only for n = 7.
C29_WindReadsNoS0Field ==
    (evals >= 1 /\ data.s = 2 /\ out.eval = evals) =>
        /\ err = "none"
        /\ EmissivityModelExists(data, calc, cnst) <=> data.n = 7

----------------------------------------------------------------------------
(* SpecShock: the integrands of a snapshot and the indicators _forward and  *)
(* _reverse at the points (s, b) of the integration domain.                 *)

\* impact parameters at which the integrands are evaluated
ImpactParameters == {0, 9, 12, 16}

\* r_min of a chev snapshot: a radius below r_c
RMin(snap) == snap.r_c - 1

\* _chev_s_lim and _s_lim: s is in the integration domain for b
InSLim(snap, s, b) ==
    /\ s * s + b * b <= ShockRadius * ShockRadius
    /\ (snap.tag = "chev" /\ b < RMin(snap)) =>
          s * s + b * b >= RMin(snap) * RMin(snap)

\* _forward(s, b)
Forward(snap, s, b) == IF NormRadius(b, s) > snap.r_c THEN 1 ELSE 0

\* _reverse(s, b)
Reverse(snap, s, b) == IF NormRadius(b, s) <= snap.r_c THEN 1 ELSE 0

\* the snapshots of the objects the emissivity window is opened for
InitShock ==
    /\ data = EmptyData
    /\ calc = EmptyCalc
    /\ stamp = [f \in CalcFields |-> 0]
    /\ cnst = NA
    /\ widgets = InitWidgets
    /\ registry = InitFunctions
    /\ phases = <<>>
    /\ out = NoOutput
    /\ err = "none"
    /\ log = <<>>
    /\ evals = 0
    /\ plot = <<>>
    /\ request = NoRequest
    /\ pc = "shock"
    /\ sol = NoSolution
    /\ \E snr \in SnrStates :
          /\ snr.t_st # NA
          /\ emis = [InitEmissivity EXCEPT !.op = "construct",
                                           !.snap = NewSnapshot(snr)]
    /\ entered = <<>>

\* one point of the integrals of total_luminosity: the integrand and, in a
\* chev snapshot, the two indicators
EvaluatePoint ==
    /\ pc = "shock" /\ sol = NoSolution
    /\ \E b \in ImpactParameters, s \in 0 .. ShockRadius :
          /\ InSLim(emis.snap, s, b)
          /\ sol' = [op |-> "point", s |-> s, b |-> b,
                     radius |-> NormRadius(b, s),
                     multiplier |-> Multiplier(emis.snap, NormRadius(b, s)),
                     forward |-> IF emis.snap.tag = "chev"
                                 THEN Forward(emis.snap, s, b) ELSE NA,
                     reverse |-> IF emis.snap.tag = "chev"
                                 THEN Reverse(emis.snap, s, b) ELSE NA]
    /\ UNCHANGED <<data, calc, stamp, cnst, widgets, registry, phases, out,
                   err, log, evals, plot, request, pc, emis, entered>>

NextShock == EvaluatePoint

SpecShock == InitShock /\ [][NextShock]_vars

\* C30: in a chev snapshot every point is forward-shock or reverse-shock and
\* not both, and it is reverse-shock exactly when the integrands apply the
\* ejecta correction to it, the points at the radius r_c included; in any
\* other snapshot the correction is never applied and ej_correction is not
\* read.
C30_ReverseIffCorrected ==
    sol.op = "point" =>
        IF emis.snap.tag = "chev"
        THEN /\ sol.forward + sol.reverse = 1
             /\ sol.reverse = 1 <=> sol.multiplier # <<>>
        ELSE /\ emis.snap.r_c = 0
             /\ sol.multiplier = <<>>

====
